---------------------------- MODULE Spec2Model ----------------------------
(* A model of the meeting assistant of cal-mcp-server:                     *)
(*   - GmailMonitor (src/src/gmail-monitor.ts, lines 202-546): the polling *)
(*     controller with its processed set seenMessageIds;                   *)
(*   - CalendarMonitor (src/src/calendar-monitor.ts): the two free-slot    *)
(*     computations getFreeSlotsForDates and getActualFreeSlots;           *)
(*   - MeetingIntentDetector (src/unnamed/part_003): the classifier whose  *)
(*     result the controller tests.                                        *)
(* Every await of the controller is one action: the action receives the    *)
(* outcome of the awaited call and runs the synchronous code up to the     *)
(* next await, which is what one turn of the JavaScript event loop does.   *)
EXTENDS Integers, Sequences, FiniteSets, Bags, TLC

(***************************************************************************)
(* Bounds of the model                                                     *)
(***************************************************************************)
MaxMsgs == 2
MaxList == 2
MaxPolls == 2
MaxTimers == 2

Ids == 1..MaxMsgs
PollIds == 1..MaxPolls

(***************************************************************************)
(* State                                                                   *)
(***************************************************************************)
VARIABLES
  gmail,            \* GmailMonitor.gmail is set (initialize() succeeded)
  pollingInterval,  \* GmailMonitor.pollingInterval: 0 is null, else a timer id
  activeTimers,     \* interval timers of the event loop that are not cleared
  timerCount,       \* timers created so far
  seenMessageIds,   \* GmailMonitor.seenMessageIds
  unread,           \* message source: ids carrying the UNREAD label
  arrived,          \* message source: ids that exist
  polls,            \* the pollUnreadMessages invocations, by position
  calls,            \* history: external calls made, per message id and kind
  oracle,           \* history: what checkIfMessageMeetingRelated returned, per id
  slotReq,          \* history: arguments of the free-slot request, per id
  sendFailed,       \* history: ids whose messages.send threw
  calendar,         \* CalendarMonitor.calendar is set (initialize() succeeded)
  dates,            \* argument `dates` of the free-slot computations
  timeZone,         \* argument `timeZone` of the free-slot computations
  systemZone,       \* the zone of the process (luxon's default zone)
  events,           \* the items calendar.events.list answers with
  ran,              \* which of the two computations have run on the input
  fixedSlots,       \* what getFreeSlotsForDates returned
  gapSlots          \* what getActualFreeSlots returned

pipeVars == <<gmail, pollingInterval, activeTimers, timerCount, seenMessageIds,
              unread, arrived, polls, calls, oracle, slotReq, sendFailed>>

slotVars == <<calendar, dates, timeZone, systemZone, events, ran,
              fixedSlots, gapSlots>>

VARIABLES
  checks,           \* the checkForNewMessages invocations, by position
  isConnected,      \* EmailSSEClient.isConnected
  reconnectAttempts,\* EmailSSEClient.reconnectAttempts
  reconnectDelay,   \* EmailSSEClient.reconnectDelay
  eventSource,      \* EmailSSEClient.eventSource: 0 is null, else an EventSource
  sources,          \* readyState of the EventSource objects created so far
  reconnectTimers,  \* pending setTimeout callbacks of attemptReconnect, a bag
  emitted,          \* the event names EmailSSEClient has emitted
  disconnected,     \* whether disconnect() was the last call made on EmailSSEClient
  clients,          \* SSEManager.clients: the client ids registered, in insertion order
  conns,            \* the GET /sse connections: "none", "open", "broken" (the
                    \* transport failed, no event delivered yet), "errored", "closed"
  delivered,        \* per connection, the broadcast events written to it with success
  offered,          \* per connection, the broadcasts made while it was open and registered
  isStreamingMode,  \* mcp-server-remote.ts: isStreamingMode
  streamingRes,     \* mcp-server-remote.ts: streamingRes, 0 is null, else a request
  keepAlive,        \* the keep-alive intervals that are not cleared, by request
  closeHandlers,    \* the requests with a 'close' handler registered
  reqs,             \* the POST /mcp requests: kind and state
  refreshInProgress,\* TokenManager.refreshInProgress: user email -> promise, 0 is absent
  refreshes,        \* the performTokenRefresh calls made: user email, state, result
  callers,          \* the refreshToken calls made: position, promise, result
  tokens,           \* TokenManager.tokens: user email -> token, if any
  clock,            \* Date.now(), in minutes
  isInitialized,    \* TokenManager.isInitialized
  gets,             \* the getToken calls made: position, what was found, result
  auth              \* the requests that went through authenticateJWT

clientVars == <<isConnected, reconnectAttempts, reconnectDelay, eventSource,
                sources, reconnectTimers, emitted, disconnected>>

mgrVars == <<clients, conns, delivered, offered>>

streamVars == <<isStreamingMode, streamingRes, keepAlive, closeHandlers, reqs>>

tokVars == <<refreshInProgress, refreshes, callers, tokens, clock, isInitialized, gets, auth>>

restVars == <<clientVars, mgrVars, streamVars, tokVars>>

vars == <<pipeVars, slotVars, checks, restVars>>

Kinds == {"get", "callback", "classify", "calInit", "slots", "rank",
          "genReply", "rawGet", "send", "modify"}

(***************************************************************************)
(* JavaScript values the controller tests                                  *)
(***************************************************************************)
JsArray(items) == [type |-> "array", items |-> items]
JsUndefined == [type |-> "undefined", items |-> <<>>]

\* ToBoolean: an object (an array included, the empty one too) is truthy.
JsTruthy(v) == v.type \in {"array", "object"}

(***************************************************************************)
(* MeetingIntentDetector.checkIfMessageMeetingRelated                      *)
(***************************************************************************)
Today == "2025-07-21"
defaultTimeZone == "+00:00"

\* The text block of the model's answer, after trim().toLowerCase().
Contents == {"false", "2025-07-21", "2025-07-23, 2025-07-22"}

\* result.split(',').map(date => date.trim())
SplitTrim(s) ==
  CASE s = "2025-07-23, 2025-07-22" -> <<"2025-07-23", "2025-07-22">>
    [] OTHER -> <<s>>

\* apiOk = FALSE: anthropic.messages.create threw and the catch returns [].
checkIfMessageMeetingRelated(apiOk, content) ==
  IF apiOk THEN JsArray(SplitTrim(content)) ELSE JsArray(<<>>)

ClassifierResults ==
  {checkIfMessageMeetingRelated(TRUE, c) : c \in Contents}
    \cup {checkIfMessageMeetingRelated(FALSE, "false")}

(***************************************************************************)
(* GmailMonitor: construction                                              *)
(***************************************************************************)
IdlePoll == [pc |-> "idle", msgs |-> <<>>, idx |-> 0]

NoReq == [dates |-> <<>>, timeZone |-> "none"]

(***************************************************************************)
(* The other objects of the server and of the browser client, as           *)
(* constructed                                                             *)
(***************************************************************************)
MaxChecks == 1

CheckIds == 1..MaxChecks

IdleCheck == [pc |-> "idle", msgs |-> <<>>, idx |-> 0, newMessages |-> <<>>,
              claimed |-> {}, result |-> <<>>]

maxReconnectAttempts == 5

initialReconnectDelay == 1000

MaxConns == 3

ConnIds == 1..MaxConns

MaxStreamReqs == 2

ReqIds == 1..MaxStreamReqs

NoRequest == [kind |-> "none", state |-> "none", gone |-> FALSE]

Emails == {"a@x", "b@x"}

\* No entry in this.tokens
NoToken == [present |-> FALSE, expiry_date |-> 0]

TokenData(expiry_date) == [present |-> TRUE, expiry_date |-> expiry_date]

MaxAuth == 2

AuthIds == 1..MaxAuth

NotAuthenticated ==
  [pc |-> "idle", jwt |-> "none", jti |-> FALSE, record |-> "none", expiry |-> 0,
   now |-> 0, nextCalls |-> 0, status |-> 0]

\* new EmailSSEClient(serverUrl)
SSEClientConstructed ==
  /\ isConnected = FALSE
  /\ reconnectAttempts = 0
  /\ reconnectDelay = initialReconnectDelay
  /\ eventSource = 0
  /\ sources = <<>>
  /\ reconnectTimers = EmptyBag
  /\ emitted = {}
  /\ disconnected = FALSE

\* new SSEManager(), and no GET /sse connection made yet
SSEManagerConstructed ==
  /\ clients = <<>>
  /\ conns = [c \in ConnIds |-> "none"]
  /\ delivered = [c \in ConnIds |-> 0]
  /\ offered = [c \in ConnIds |-> 0]

\* The streaming state of the server at start, and no POST /mcp request yet
StreamingOff ==
  /\ isStreamingMode = FALSE
  /\ streamingRes = 0
  /\ keepAlive = {}
  /\ closeHandlers = {}
  /\ reqs = [r \in ReqIds |-> NoRequest]

\* new TokenManager(): no refresh in progress
TokenManagerConstructed ==
  /\ refreshInProgress = [e \in Emails |-> 0]
  /\ refreshes = <<>>
  /\ callers = <<>>
  /\ tokens = [e \in Emails |-> NoToken]
  /\ clock = 0
  /\ isInitialized = FALSE
  /\ gets = <<>>
  /\ auth = [r \in AuthIds |-> NotAuthenticated]

RestAtRest ==
  /\ checks = [c \in CheckIds |-> IdleCheck]
  /\ SSEClientConstructed
  /\ SSEManagerConstructed
  /\ StreamingOff
  /\ TokenManagerConstructed

Init ==
  /\ RestAtRest
  /\ gmail = FALSE
  /\ pollingInterval = 0
  /\ activeTimers = {}
  /\ timerCount = 0
  /\ seenMessageIds = {}
  /\ unread = {}
  /\ arrived = {}
  /\ polls = [p \in PollIds |-> IdlePoll]
  /\ calls = [i \in Ids |-> [k \in Kinds |-> 0]]
  /\ oracle = [i \in Ids |-> JsUndefined]
  /\ slotReq = [i \in Ids |-> NoReq]
  /\ sendFailed = {}
  /\ calendar = FALSE
  /\ dates = <<>>
  /\ timeZone = defaultTimeZone
  /\ systemZone = defaultTimeZone
  /\ events = <<>>
  /\ ran = {}
  /\ fixedSlots = <<>>
  /\ gapSlots = <<>>

(***************************************************************************)
(* Message source                                                          *)
(***************************************************************************)
\* A new unread message appears at the source; ids are never reused.
MessageArrives(id) ==
  /\ id \notin arrived
  /\ arrived' = arrived \cup {id}
  /\ unread' = unread \cup {id}
  /\ UNCHANGED <<gmail, pollingInterval, activeTimers, timerCount,
                 seenMessageIds, polls, calls, oracle, slotReq, sendFailed, slotVars, checks, restVars>>

\* What messages.list({q: 'is:unread'}) may answer: unread ids, one page.
RECURSIVE SeqsUpTo(_, _)
SeqsUpTo(S, n) ==
  IF n = 0 THEN {<<>>}
  ELSE LET shorter == SeqsUpTo(S, n - 1)
       IN shorter \cup {Append(s, x) : s \in {t \in shorter : Len(t) = n - 1}, x \in S}

ListAnswers == SeqsUpTo(unread, MaxList)

(***************************************************************************)
(* GmailMonitor.initialize                                                 *)
(***************************************************************************)
Initialize ==
  /\ ~gmail
  /\ gmail' = TRUE
  /\ UNCHANGED <<pollingInterval, activeTimers, timerCount, seenMessageIds,
                 unread, arrived, polls, calls, oracle, slotReq, sendFailed, slotVars, checks, restVars>>

(***************************************************************************)
(* GmailMonitor.pollUnreadMessages: the loop head                          *)
(***************************************************************************)
Min(S) == CHOOSE x \in S : \A y \in S : x <= y

\* Mutant for C1: the loop head without the seenMessageIds.has test.
\* Mutant for C26: the loop takes the last unseen message of the list first.
FirstUnseenLast(msgs, from, seen) ==
  LET cand == {j \in from..Len(msgs) : msgs[j] \notin seen}
  IN IF cand = {} THEN 0 ELSE CHOOSE x \in cand : \A y \in cand : y <= x

FirstUnseenNoTest(msgs, from, seen) ==
  IF from <= Len(msgs) THEN from ELSE 0

\* for (const msg of messages) { if (seenMessageIds.has(msg.id)) continue; ...
\* the position of the next message the loop body runs for, 0 when none.
FirstUnseen(msgs, from, seen) ==
  LET cand == {j \in from..Len(msgs) : msgs[j] \notin seen}
  IN IF cand = {} THEN 0 ELSE Min(cand)

\* Mutant for C27: the set is started afresh with the selected message.
ClaimReplacing(seen, id) == {id}

\* Mutant for C2: the claim is not recorded when the message is selected.
ClaimLate(seen, id) == seen

\* this.seenMessageIds.add(msg.id)
Claim(seen, id) == seen \cup {id}

Called(id, kind) == [calls EXCEPT ![id][kind] = @ + 1]

\* Run the for loop from position `from` of `msgs` up to its next await:
\* skip seen ids, claim the first unseen one and call messages.get for it,
\* or leave the loop (the invocation returns).
Continue(p, msgs, from) ==
  LET j == FirstUnseen(msgs, from, seenMessageIds)
  IN IF j = 0
     THEN /\ polls' = [polls EXCEPT ![p] = [pc |-> "done", msgs |-> msgs, idx |-> Len(msgs) + 1]]
          /\ UNCHANGED <<seenMessageIds, calls>>
     ELSE /\ seenMessageIds' = Claim(seenMessageIds, msgs[j])
          /\ calls' = Called(msgs[j], "get")
          /\ polls' = [polls EXCEPT ![p] = [pc |-> "get", msgs |-> msgs, idx |-> j]]

Cur(p) == polls[p].msgs[polls[p].idx]

\* The current message's next calls are made; the invocation waits at `pc`.
Await(p, kinds, pc) ==
  /\ calls' = [calls EXCEPT ![Cur(p)] =
                 [k \in Kinds |-> IF k \in kinds THEN @[k] + 1 ELSE @[k]]]
  /\ polls' = [polls EXCEPT ![p].pc = pc]
  /\ UNCHANGED seenMessageIds

timerVars == <<pollingInterval, activeTimers, timerCount>>
srcVars == <<unread, arrived>>
histVars == <<oracle, slotReq, sendFailed>>

(***************************************************************************)
(* GmailMonitor.startPolling / stopPolling and the interval timer          *)
(***************************************************************************)
IdlePolls == {p \in PollIds : polls[p].pc = "idle"}

\* pollUnreadMessages() is invoked: it returns at once without a client,
\* else it calls messages.list and waits.
InvokePoll ==
  IF gmail
  THEN polls' = [polls EXCEPT ![Min(IdlePolls)].pc = "list"]
  ELSE UNCHANGED polls

\* Mutant for C33: the interval already set is not cleared.
startPollingNoClear ==
  /\ timerCount < MaxTimers
  /\ IdlePolls # {}
  /\ timerCount' = timerCount + 1
  /\ activeTimers' = activeTimers \cup {timerCount + 1}
  /\ pollingInterval' = timerCount + 1
  /\ InvokePoll
  /\ UNCHANGED <<gmail, seenMessageIds, srcVars, calls, histVars, slotVars>>

\* startPolling(), as long as fewer than `limit` intervals were ever set
startPollingUpTo(limit) ==
  /\ timerCount < limit
  /\ IdlePolls # {}
  /\ timerCount' = timerCount + 1
  /\ activeTimers' = (activeTimers \ {pollingInterval}) \cup {timerCount + 1}
  /\ pollingInterval' = timerCount + 1
  /\ InvokePoll
  /\ UNCHANGED <<gmail, seenMessageIds, srcVars, calls, histVars, slotVars>>

startPolling == startPollingUpTo(MaxTimers)

StartPolling == startPolling /\ UNCHANGED <<checks, restVars>>

TimerTick(t) ==
  /\ t \in activeTimers
  /\ IdlePolls # {}
  /\ InvokePoll
  /\ UNCHANGED <<gmail, timerVars, seenMessageIds, srcVars, calls, histVars, slotVars, checks, restVars>>

\* Mutant for C21: the field is reset without clearInterval.
StopPollingKeepsTimer ==
  /\ pollingInterval # 0
  /\ pollingInterval' = 0
  /\ UNCHANGED <<gmail, activeTimers, timerCount, seenMessageIds, srcVars, polls,
                 calls, histVars, slotVars>>

stopPolling ==
  /\ pollingInterval # 0
  /\ activeTimers' = activeTimers \ {pollingInterval}
  /\ pollingInterval' = 0
  /\ UNCHANGED <<gmail, timerCount, seenMessageIds, srcVars, polls, calls, histVars, slotVars>>

StopPolling == stopPolling /\ UNCHANGED <<checks, restVars>>

(***************************************************************************)
(* GmailMonitor.pollUnreadMessages: one action per await                   *)
(***************************************************************************)
\* await gmail.users.messages.list(...)
ListReturn(p) ==
  /\ polls[p].pc = "list"
  /\ \/ /\ polls' = [polls EXCEPT ![p].pc = "done"]     \* throws: outer catch
        /\ UNCHANGED <<seenMessageIds, calls>>
     \/ \E msgs \in ListAnswers : Continue(p, msgs, 1)
  /\ UNCHANGED <<gmail, timerVars, srcVars, histVars, slotVars, checks, restVars>>

\* await gmail.users.messages.get({id}); onMessageReceived; then the classifier
GetReturn(p) ==
  /\ polls[p].pc = "get"
  /\ \/ /\ polls' = [polls EXCEPT ![p].pc = "done"]     \* throws: outer catch
        /\ UNCHANGED <<seenMessageIds, calls>>
     \/ Await(p, {"callback", "classify"}, "classify")
  /\ UNCHANGED <<gmail, timerVars, srcVars, histVars, slotVars, checks, restVars>>

\* const dates = [today]; getActualFreeSlots(dates, defaultTimeZone)
SlotRequest(result) == [dates |-> <<Today>>, timeZone |-> defaultTimeZone]

\* await meetingIntentDetector.checkIfMessageMeetingRelated(...)
ClassifyReturn(p) ==
  /\ polls[p].pc = "classify"
  /\ \E r \in ClassifierResults :
        /\ oracle' = [oracle EXCEPT ![Cur(p)] = r]
        /\ IF ~JsTruthy(r)
           THEN Await(p, {"modify"}, "mark")
           ELSE Await(p, {"calInit"}, "calInit")
  /\ UNCHANGED <<gmail, timerVars, srcVars, slotReq, sendFailed, slotVars, checks, restVars>>

\* await calendarMonitor.initialize(); then getActualFreeSlots is called
CalInitReturn(p) ==
  /\ polls[p].pc = "calInit"
  /\ \/ /\ Continue(p, polls[p].msgs, polls[p].idx + 1)   \* throws: inner catch
        /\ UNCHANGED slotReq
     \/ /\ slotReq' = [slotReq EXCEPT ![Cur(p)] = SlotRequest(oracle[Cur(p)])]
        /\ Await(p, {"slots"}, "slots")
  /\ UNCHANGED <<gmail, timerVars, srcVars, oracle, sendFailed, slotVars, checks, restVars>>

\* await calendarMonitor.getActualFreeSlots(...); then getMeetingRequestContext
SlotsReturn(p) ==
  /\ polls[p].pc = "slots"
  /\ Await(p, {"rank"}, "rank")
  /\ UNCHANGED <<gmail, timerVars, srcVars, histVars, slotVars, checks, restVars>>

\* await meetingIntentDetector.getMeetingRequestContext(...)
RankReturn(p) ==
  /\ polls[p].pc = "rank"
  /\ \/ Continue(p, polls[p].msgs, polls[p].idx + 1)      \* throws: inner catch
     \/ \E toEmail \in BOOLEAN :
          IF toEmail
          THEN Await(p, {"genReply"}, "genReply")
          ELSE Await(p, {"modify"}, "mark")
  /\ UNCHANGED <<gmail, timerVars, srcVars, histVars, slotVars, checks, restVars>>

\* await meetingIntentDetector.generateEmailResponse(...): never throws
GenReplyReturn(p) ==
  /\ polls[p].pc = "genReply"
  /\ Await(p, {"rawGet"}, "rawGet")
  /\ UNCHANGED <<gmail, timerVars, srcVars, histVars, slotVars, checks, restVars>>

\* await gmail.users.messages.get({format: 'raw'}), an error is caught;
\* composeAndSendEmail then builds the reply and calls messages.send
RawGetReturn(p) ==
  /\ polls[p].pc = "rawGet"
  /\ Await(p, {"send"}, "send")
  /\ UNCHANGED <<gmail, timerVars, srcVars, histVars, slotVars, checks, restVars>>

\* Mutant for C3: composeAndSendEmail without its try/catch around the send.
composeAndSendEmailNoCatch(sendOk) == IF sendOk THEN "returned" ELSE "thrown"

\* How composeAndSendEmail ends for an outcome of messages.send.
composeAndSendEmail(sendOk) == "returned"

\* await this.composeAndSendEmail(...); then the mark-as-read call
SendReturn(p) ==
  /\ polls[p].pc = "send"
  /\ \E sendOk \in BOOLEAN :
        /\ sendFailed' = IF sendOk THEN sendFailed ELSE sendFailed \cup {Cur(p)}
        /\ IF composeAndSendEmail(sendOk) = "thrown"
           THEN Continue(p, polls[p].msgs, polls[p].idx + 1)  \* inner catch
           ELSE Await(p, {"modify"}, "mark")
  /\ UNCHANGED <<gmail, timerVars, srcVars, oracle, slotReq, slotVars, checks, restVars>>

\* await gmail.users.messages.modify({removeLabelIds: ['UNREAD']}), an error is caught
MarkReturn(p) ==
  /\ polls[p].pc = "mark"
  /\ \E ok \in BOOLEAN :
        unread' = IF ok THEN unread \ {Cur(p)} ELSE unread
  /\ Continue(p, polls[p].msgs, polls[p].idx + 1)
  /\ UNCHANGED <<gmail, timerVars, arrived, histVars, slotVars, checks, restVars>>

PollStep(p) ==
  \/ ListReturn(p)
  \/ GetReturn(p)
  \/ ClassifyReturn(p)
  \/ CalInitReturn(p)
  \/ SlotsReturn(p)
  \/ RankReturn(p)
  \/ GenReplyReturn(p)
  \/ RawGetReturn(p)
  \/ SendReturn(p)
  \/ MarkReturn(p)

Next ==
  \/ Initialize
  \/ StartPolling
  \/ StopPolling
  \/ \E t \in 1..MaxTimers : TimerTick(t)
  \/ \E id \in Ids : MessageArrives(id)
  \/ \E p \in PollIds : PollStep(p)

Spec == Init /\ [][Next]_vars


(***************************************************************************)
(* Dates, zones and luxon DateTime values                                  *)
(* An instant is a number of minutes since 2025-07-24T00:00Z. A DateTime   *)
(* is an instant, the offset of its zone in minutes, and its validity; an  *)
(* invalid DateTime has the value NaN, so every comparison with it fails.  *)
(***************************************************************************)
MinutesPerDay == 24 * 60

MaxDates == 1
MaxEvents == 1

ValidDates == {"2025-07-24", "2025-07-25"}
DateStrs == ValidDates \cup {"next friday"}
Zones == {"-07:00", "+00:00", "+10:00"}
SystemZones == {"+00:00", "-07:00"}

\* The day number of a yyyy-MM-dd string; -1 when it is no ISO date.
ParseDay(dateStr) ==
  CASE dateStr = "2025-07-23" -> -1
    [] dateStr = "2025-07-24" -> 0
    [] dateStr = "2025-07-25" -> 1
    [] dateStr = "2025-07-26" -> 2
    [] OTHER -> -99

IsISODate(dateStr) == ParseDay(dateStr) # -99

\* yyyy-MM-dd of a day number
DayString(day) ==
  CASE day = -1 -> "2025-07-23"
    [] day = 0 -> "2025-07-24"
    [] day = 1 -> "2025-07-25"
    [] day = 2 -> "2025-07-26"
    [] OTHER -> "other"

\* Minutes east of UTC of a fixed-offset zone name
OffsetMinutes(zone) ==
  CASE zone = "-07:00" -> -420
    [] zone = "+00:00" -> 0
    [] zone = "+10:00" -> 600

\* Order of the date strings as JavaScript compares strings (by code unit)
StringRank(dateStr) ==
  CASE dateStr = "2025-07-23" -> 1
    [] dateStr = "2025-07-24" -> 2
    [] dateStr = "2025-07-25" -> 3
    [] dateStr = "2025-07-26" -> 4
    [] OTHER -> 5

Invalid == [ts |-> 0, zone |-> 0, valid |-> FALSE]

FloorDiv(a, b) == a \div b

\* DateTime.fromISO(dateStr, {zone}): local midnight of the date in the zone
FromISODate(dateStr, zone) ==
  IF IsISODate(dateStr)
  THEN [ts |-> ParseDay(dateStr) * MinutesPerDay - OffsetMinutes(zone),
        zone |-> OffsetMinutes(zone), valid |-> TRUE]
  ELSE Invalid

\* DateTime.fromISO(dateTime) of an ISO string with an offset: the instant it
\* names, in the zone of the process (the offset of the string is not kept).
FromISODateTime(wall, offset) ==
  [ts |-> wall - OffsetMinutes(offset), zone |-> OffsetMinutes(systemZone),
   valid |-> TRUE]

\* dt.set({hour, minute, second: 0, millisecond: 0}): same local day
SetTime(dt, hour, minute) ==
  IF dt.valid
  THEN [dt EXCEPT !.ts = FloorDiv(dt.ts + dt.zone, MinutesPerDay) * MinutesPerDay
                          + hour * 60 + minute - dt.zone]
  ELSE dt

\* dt.plus({minutes}) and dt.minus({minutes})
Plus(dt, minutes) == IF dt.valid THEN [dt EXCEPT !.ts = @ + minutes] ELSE dt

\* dt.toUTC()
ToUTC(dt) == IF dt.valid THEN [dt EXCEPT !.zone = 0] ELSE dt

\* dt.toFormat('yyyy-MM-dd'): the local date in the zone of dt
ToFormatDate(dt) ==
  IF dt.valid THEN DayString(FloorDiv(dt.ts + dt.zone, MinutesPerDay))
  ELSE "Invalid DateTime"

\* a < b and a <= b on DateTimes (valueOf; NaN compares false)
Lt(a, b) == a.valid /\ b.valid /\ a.ts < b.ts
Le(a, b) == a.valid /\ b.valid /\ a.ts <= b.ts

\* DateTime.max(a, b): bestBy with Math.max, which keeps `a` only when
\* Math.max(a, b) === a
DateTimeMax(a, b) == IF a.valid /\ b.valid /\ a.ts >= b.ts THEN a ELSE b

\* {start: s.toISO(), end: e.toISO()}: local time and offset of both ends
FreeSlot(s, e) == [start |-> s.ts, end |-> e.ts, zone |-> s.zone]

(***************************************************************************)
(* Sorting as Array.prototype.sort does: stable, by a comparison           *)
(***************************************************************************)
\* Elements are sorted by a numeric key each carries: keyed is a sequence of
\* [key, val] records, and equal keys keep their order.
RECURSIVE InsertKeyed(_, _)
InsertKeyed(x, sorted) ==
  IF sorted = <<>> THEN <<x>>
  ELSE IF x.key <= Head(sorted).key THEN <<x>> \o sorted
       ELSE <<Head(sorted)>> \o InsertKeyed(x, Tail(sorted))

RECURSIVE SortKeyed(_)
SortKeyed(keyed) ==
  IF keyed = <<>> THEN <<>>
  ELSE InsertKeyed(Head(keyed), SortKeyed(Tail(keyed)))

Vals(keyed) == [i \in 1..Len(keyed) |-> keyed[i].val]

RECURSIVE Flatten(_)
Flatten(seqs) == IF seqs = <<>> THEN <<>> ELSE Head(seqs) \o Flatten(Tail(seqs))

(***************************************************************************)
(* CalendarMonitor.getBusyEvents                                           *)
(***************************************************************************)
\* requestedDates.sort(): the caller's array, sorted in place
SortedDates(requestedDates) ==
  Vals(SortKeyed([i \in 1..Len(requestedDates) |->
                    [key |-> StringRank(requestedDates[i]), val |-> requestedDates[i]]]))

\* The `dates` array of the caller after getBusyEvents(dates) returned.
DatesAfterGetBusyEvents(requestedDates) ==
  IF calendar /\ Len(requestedDates) > 0
  THEN SortedDates(requestedDates)
  ELSE requestedDates

\* An event is {start: {dateTime}, end: {dateTime}}: two wall-clock times
\* (minutes since 2025-07-24T00:00 on the wall) written with one offset.
\* new Date(sortedDates[0] + 'T00:00:00Z') of a malformed date is an Invalid
\* Date, toISOString() throws inside the try, and the catch answers [].
getBusyEvents(requestedDates) ==
  IF ~calendar THEN <<>>
  ELSE IF Len(requestedDates) > 0
          /\ (~IsISODate(SortedDates(requestedDates)[1])
              \/ ~IsISODate(SortedDates(requestedDates)[Len(requestedDates)]))
       THEN <<>>
       ELSE events

(***************************************************************************)
(* CalendarMonitor.getFreeSlotsForDates                                    *)
(***************************************************************************)
workingStartHour == 9
workingEndHour == 18
slotMinutes == 30
bufferMinutes == 5

\* busyIntervals = events.map(e => ({start: fromISO(...), end: fromISO(...)}))
BusyInterval(e) ==
  [start |-> FromISODateTime(e.start, e.offset),
   end |-> FromISODateTime(e.end, e.offset)]

BusyIntervals(evs) == [i \in 1..Len(evs) |-> BusyInterval(evs[i])]

\* slotStartUTC < busyEndWithBuffer && slotEndUTC > busyStartWithBuffer
hasOverlap(slotStart, slotEnd, busy) ==
  /\ Lt(ToUTC(slotStart), Plus(ToUTC(busy.end), bufferMinutes))
  /\ Lt(Plus(ToUTC(busy.start), -bufferMinutes), ToUTC(slotEnd))

\* Mutant for C8: the hour loop runs through workingEndHour itself.
LastSlotHourInclusive == workingEndHour

\* for (let hour = workingStartHour; hour < workingEndHour; hour++)
LastSlotHour == workingEndHour - 1

\* for (let min = 0; min < 60; min += slotMinutes): iterations per hour
MinuteSteps == (59 \div slotMinutes) + 1

\* The (hour, minute) pairs of the two nested loops, in loop order
LoopStarts ==
  [k \in 1..((LastSlotHour - workingStartHour + 1) * MinuteSteps) |->
     [hour |-> workingStartHour + (k - 1) \div MinuteSteps,
      minute |-> ((k - 1) % MinuteSteps) * slotMinutes]]

\* The free slots of one date, in loop order
FixedSlotsOfDate(dateStr, zone, busyIntervals) ==
  LET baseDate == FromISODate(dateStr, zone)
      free(hm) ==
        LET slotStart == SetTime(baseDate, hm.hour, hm.minute)
            slotEnd == Plus(slotStart, slotMinutes)
        IN ~ \E i \in 1..Len(busyIntervals) :
               hasOverlap(slotStart, slotEnd, busyIntervals[i])
      kept == SelectSeq(LoopStarts, free)
  IN IF ~baseDate.valid THEN <<>>
     ELSE [k \in 1..Len(kept) |->
             FreeSlot(SetTime(baseDate, kept[k].hour, kept[k].minute),
                      Plus(SetTime(baseDate, kept[k].hour, kept[k].minute), slotMinutes))]

\* slots.sort((a, b) => a.start.localeCompare(b.start)) on ISO strings of
\* one format: the local time decides the order
IsoKey(slot) == slot.start + slot.zone

SortSlots(slots) ==
  Vals(SortKeyed([i \in 1..Len(slots) |-> [key |-> IsoKey(slots[i]), val |-> slots[i]]]))

\* The body of getFreeSlotsForDates after `events` is known: the date loop over
\* `iter` (the dates array as getBusyEvents left it), then the sort.
FreeSlotsOfDates(iter, zone, evs) ==
  SortSlots(Flatten([i \in 1..Len(iter) |->
                       FixedSlotsOfDate(iter[i], zone, BusyIntervals(evs))]))

getFreeSlotsForDates(ds, zone) ==
  FreeSlotsOfDates(DatesAfterGetBusyEvents(ds), zone, getBusyEvents(ds))

(***************************************************************************)
(* CalendarMonitor.getActualFreeSlots                                      *)
(***************************************************************************)
\* Mutant for C11: the busy events of the day are not sorted by start.
DayBusyEventsUnsorted(evs, dateStr) ==
  LET onDay(e) == ToFormatDate(FromISODateTime(e.start, e.offset)) = dateStr
      day == SelectSeq(evs, onDay)
  IN [i \in 1..Len(day) |-> BusyInterval(day[i])]

\* events.filter(event => fromISO(event.start.dateTime).toFormat('yyyy-MM-dd')
\*   === dateStr).map(...).sort((a, b) => a.start.toMillis() - b.start.toMillis())
DayBusyEvents(evs, dateStr) ==
  LET onDay(e) == ToFormatDate(FromISODateTime(e.start, e.offset)) = dateStr
      day == SelectSeq(evs, onDay)
  IN Vals(SortKeyed([i \in 1..Len(day) |->
                       [key |-> BusyInterval(day[i]).start.ts, val |-> BusyInterval(day[i])]]))

\* A walk is the loop's state: currentTime and the slots pushed so far.
\* while (currentTime < busyEvent.start && currentTime < dayEnd) { ... }
RECURSIVE SlotsBefore(_, _, _)
SlotsBefore(walk, busyStart, dayEnd) ==
  IF Lt(walk.currentTime, busyStart) /\ Lt(walk.currentTime, dayEnd)
  THEN LET slotEnd == Plus(walk.currentTime, slotMinutes)
       IN SlotsBefore(
            [currentTime |-> Plus(walk.currentTime, slotMinutes),
             slots |-> IF Le(slotEnd, busyStart)
                       THEN Append(walk.slots, FreeSlot(walk.currentTime, slotEnd))
                       ELSE walk.slots],
            busyStart, dayEnd)
  ELSE walk

\* for (const busyEvent of dayBusyEvents) { ...; currentTime = max(currentTime, busyEvent.end) }
RECURSIVE WalkBusy(_, _, _)
WalkBusy(walk, busy, dayEnd) ==
  IF busy = <<>> THEN walk
  ELSE LET w == SlotsBefore(walk, Head(busy).start, dayEnd)
       IN WalkBusy([w EXCEPT !.currentTime = DateTimeMax(w.currentTime, Head(busy).end)],
                   Tail(busy), dayEnd)

\* while (currentTime < dayEnd) { if (slotEnd <= dayEnd) push; currentTime += slotMinutes }
RECURSIVE SlotsUntilDayEnd(_, _)
SlotsUntilDayEnd(walk, dayEnd) ==
  IF Lt(walk.currentTime, dayEnd)
  THEN LET slotEnd == Plus(walk.currentTime, slotMinutes)
       IN SlotsUntilDayEnd(
            [currentTime |-> Plus(walk.currentTime, slotMinutes),
             slots |-> IF Le(slotEnd, dayEnd)
                       THEN Append(walk.slots, FreeSlot(walk.currentTime, slotEnd))
                       ELSE walk.slots],
            dayEnd)
  ELSE walk

\* The free slots one iteration of the date loop pushes
GapSlotsOfDate(dateStr, zone, evs) ==
  LET dayStart == SetTime(FromISODate(dateStr, zone), workingStartHour, 0)
      dayEnd == SetTime(FromISODate(dateStr, zone), workingEndHour, 0)
      start == [currentTime |-> dayStart, slots |-> <<>>]
  IN SlotsUntilDayEnd(WalkBusy(start, DayBusyEvents(evs, dateStr), dayEnd), dayEnd).slots

\* The body of getActualFreeSlots after `events` is known: the date loop over
\* `iter` (the dates array as getBusyEvents left it); the result is not sorted.
ActualFreeSlotsOfDates(iter, zone, evs) ==
  Flatten([i \in 1..Len(iter) |-> GapSlotsOfDate(iter[i], zone, evs)])

getActualFreeSlots(ds, zone) ==
  ActualFreeSlotsOfDates(DatesAfterGetBusyEvents(ds), zone, getBusyEvents(ds))

(***************************************************************************)
(* The free-slot computations on bounded inputs                            *)
(***************************************************************************)
\* Busy spans of a working day, in minutes of the local day
Spans == {<<540, 1080>>, <<600, 615>>, <<600, 660>>, <<575, 595>>, <<574, 596>>,
          <<840, 870>>}

\* The event that is busy over `span` of `dateStr` in `zone`, written with `offset`
EventAt(dateStr, zone, span, offset) ==
  LET shift == ParseDay(dateStr) * MinutesPerDay - OffsetMinutes(zone) + OffsetMinutes(offset)
  IN [start |-> shift + span[1], end |-> shift + span[2], offset |-> offset]

EventPool(zone) ==
  {EventAt(d, zone, sp, off) : d \in ValidDates, sp \in Spans, off \in {"+00:00", zone}}

InitSlots ==
  /\ RestAtRest
  /\ gmail = FALSE
  /\ pollingInterval = 0
  /\ activeTimers = {}
  /\ timerCount = 0
  /\ seenMessageIds = {}
  /\ unread = {}
  /\ arrived = {}
  /\ polls = [p \in PollIds |-> IdlePoll]
  /\ calls = [i \in Ids |-> [k \in Kinds |-> 0]]
  /\ oracle = [i \in Ids |-> JsUndefined]
  /\ slotReq = [i \in Ids |-> NoReq]
  /\ sendFailed = {}
  /\ calendar \in BOOLEAN
  /\ dates \in SeqsUpTo(DateStrs, MaxDates) \ {<<>>}
  /\ timeZone \in Zones
  /\ systemZone \in SystemZones
  /\ events \in (IF calendar THEN SeqsUpTo(EventPool(timeZone), MaxEvents) ELSE {<<>>})
  /\ ran = {}
  /\ fixedSlots = <<>>
  /\ gapSlots = <<>>

RunGetFreeSlotsForDates ==
  /\ "fixed" \notin ran
  /\ ran' = ran \cup {"fixed"}
  /\ fixedSlots' = getFreeSlotsForDates(dates, timeZone)
  /\ UNCHANGED <<checks, restVars, pipeVars, calendar, dates, timeZone, systemZone, events, gapSlots>>

RunGetActualFreeSlots ==
  /\ "gap" \notin ran
  /\ ran' = ran \cup {"gap"}
  /\ gapSlots' = getActualFreeSlots(dates, timeZone)
  /\ UNCHANGED <<checks, restVars, pipeVars, calendar, dates, timeZone, systemZone, events, fixedSlots>>

NextSlots ==
  \/ RunGetFreeSlotsForDates
  \/ RunGetActualFreeSlots

SpecSlots == InitSlots /\ [][NextSlots]_vars

\* The controller as constructed, before any of its operations
PipelineAtRest ==
  /\ RestAtRest
  /\ gmail = FALSE
  /\ pollingInterval = 0
  /\ activeTimers = {}
  /\ timerCount = 0
  /\ seenMessageIds = {}
  /\ unread = {}
  /\ arrived = {}
  /\ polls = [p \in PollIds |-> IdlePoll]
  /\ calls = [i \in Ids |-> [k \in Kinds |-> 0]]
  /\ oracle = [i \in Ids |-> JsUndefined]
  /\ slotReq = [i \in Ids |-> NoReq]
  /\ sendFailed = {}

\* Several busy events of one requested day, in any order
MaxBusy == 2

EventsOn(dateStr, zone) ==
  {EventAt(dateStr, zone, sp, off) : sp \in Spans, off \in {"+00:00", zone}}

InitOrder ==
  /\ PipelineAtRest
  /\ calendar = TRUE
  /\ dates \in {<<d>> : d \in ValidDates}
  /\ timeZone \in Zones
  /\ systemZone \in SystemZones
  /\ events \in SeqsUpTo(EventsOn(dates[1], timeZone), MaxBusy)
  /\ ran = {}
  /\ fixedSlots = <<>>
  /\ gapSlots = <<>>

SpecOrder == InitOrder /\ [][NextSlots]_vars

\* Several requested dates, in any order, malformed ones among them
MaxReq == 2

InitDates ==
  /\ PipelineAtRest
  /\ calendar \in BOOLEAN
  /\ dates \in SeqsUpTo(DateStrs, MaxReq) \ {<<>>}
  /\ timeZone \in Zones
  /\ systemZone \in SystemZones
  /\ events \in (IF calendar THEN SeqsUpTo(EventPool(timeZone), MaxEvents) ELSE {<<>>})
  /\ ran = {}
  /\ fixedSlots = <<>>
  /\ gapSlots = <<>>

SpecDates == InitDates /\ [][NextSlots]_vars

(***************************************************************************)
(* Properties of the polling controller (specification Spec)               *)
(***************************************************************************)
Listed(p, id) == \E i \in 1..Len(polls[p].msgs) : polls[p].msgs[i] = id

InFlight == {p \in PollIds : polls[p].pc \notin {"idle", "done"}}

\* C1: over all invocations of pollUnreadMessages, overlapping ones included,
\* the reply send is attempted at most once per message id, and a message id
\* is processed (fetched, classified) at most once, however often it is listed.
C1_AtMostOneReplyPerId ==
  \A id \in Ids :
    /\ calls[id]["send"] <= 1
    /\ calls[id]["get"] <= 1
    /\ calls[id]["classify"] <= 1

\* C1 witness: two finished invocations both listed an id whose reply was sent.
C1_Witness ==
  \E id \in Ids : \E p, q \in PollIds :
    /\ p # q
    /\ polls[p].pc = "done" /\ polls[q].pc = "done"
    /\ Listed(p, id) /\ Listed(q, id)
    /\ calls[id]["send"] = 1

\* C2: whenever any external call has been made for a message id (the fetch,
\* the callback, the classification, the free-slot request, the ranking, the
\* reply send, the mark-as-read call), the id is already in seenMessageIds.
C2_ClaimBeforeCalls ==
  \A id \in Ids : \A k \in Kinds :
    calls[id][k] > 0 => id \in seenMessageIds

\* C2 witness: a message went through every call of the pipeline.
C2_Witness ==
  \E id \in Ids : \A k \in Kinds : calls[id][k] > 0

\* C3: a message whose reply send threw still gets its mark-as-read call,
\* exactly once.
C3_SendFailureStillMarked ==
  \A id \in sendFailed : calls[id]["modify"] = 1

\* C3 witness: the send threw for a message of a finished invocation, and the
\* mark-as-read call that followed removed the UNREAD label.
C3_Witness ==
  \E id \in sendFailed : \E p \in PollIds :
    /\ polls[p].pc = "done"
    /\ Listed(p, id)
    /\ id \notin unread
    /\ calls[id]["modify"] = 1

\* C4: two invocations of pollUnreadMessages are never in flight together.
C4_NoOverlappingPolls == Cardinality(InFlight) <= 1

\* C5: when an invocation has returned, every message its list call returned
\* has been claimed, whatever call failed for an earlier message.
C5_FailureDoesNotStopTheRest ==
  \A p \in PollIds :
    polls[p].pc = "done" =>
      \A i \in 1..Len(polls[p].msgs) : polls[p].msgs[i] \in seenMessageIds

\* C6: for a message the classifier answered with the empty result, no
\* free-slot request and no reply send is made.
C6_EmptyResultNoSlotsNoReply ==
  \A id \in Ids :
    oracle[id] = JsArray(<<>>) =>
      /\ calls[id]["slots"] = 0
      /\ calls[id]["send"] = 0

\* C7: when the classifier returned several candidate dates for a message,
\* the free-slot request made for it names all of those dates.
C7_AllCandidateDatesRequested ==
  \A id \in Ids :
    (calls[id]["slots"] > 0 /\ Len(oracle[id].items) > 1) =>
      slotReq[id].dates = oracle[id].items

(***************************************************************************)
(* Properties of the free-slot computations (specification SpecSlots)      *)
(***************************************************************************)
SlotsPerDay == ((workingEndHour - workingStartHour) * 60) \div slotMinutes

AllDatesValid == \A i \in 1..Len(dates) : IsISODate(dates[i])

\* Start of the local day `dateStr` in the requested zone, as an instant
DayOrigin(dateStr) == ParseDay(dateStr) * MinutesPerDay - OffsetMinutes(timeZone)

\* The slots of `slots` that start on the local day `dateStr`
OnDate(slots, dateStr) ==
  {i \in 1..Len(slots) :
     /\ DayOrigin(dateStr) <= slots[i].start
     /\ slots[i].start < DayOrigin(dateStr) + MinutesPerDay}

Occurrences(dateStr) == Cardinality({i \in 1..Len(dates) : dates[i] = dateStr})

FullDays(slots) ==
  \A i \in 1..Len(dates) :
    Cardinality(OnDate(slots, dates[i])) = SlotsPerDay * Occurrences(dates[i])

\* C8: with an empty busy list and valid dates, each of the two computations
\* returns floor((workingEndHour - workingStartHour) * 60 / slotMinutes) slots
\* for every requested date.
C8_EmptyBusyFullDay ==
  (AllDatesValid /\ getBusyEvents(dates) = <<>>) =>
    /\ "fixed" \in ran => (FullDays(fixedSlots) /\ Len(fixedSlots) = SlotsPerDay * Len(dates))
    /\ "gap" \in ran => (FullDays(gapSlots) /\ Len(gapSlots) = SlotsPerDay * Len(dates))

\* C8 witness: both computations ran on a valid date in a zone west of UTC
\* with an initialized calendar that holds no event.
C8_Witness ==
  /\ ran = {"fixed", "gap"}
  /\ calendar /\ events = <<>>
  /\ AllDatesValid
  /\ timeZone = "-07:00"
  /\ Len(fixedSlots) = SlotsPerDay
  /\ Len(gapSlots) = SlotsPerDay

\* The busy interval of an event, as a pair of instants
Instants(e) == [start |-> e.start - OffsetMinutes(e.offset),
                end |-> e.end - OffsetMinutes(e.offset)]

Covered(dateStr) ==
  \E i \in 1..Len(getBusyEvents(dates)) :
    /\ Instants(getBusyEvents(dates)[i]).start = DayOrigin(dateStr) + workingStartHour * 60
    /\ Instants(getBusyEvents(dates)[i]).end = DayOrigin(dateStr) + workingEndHour * 60

\* C9: a requested date whose working day [workingStartHour, workingEndHour)
\* in the requested zone is exactly covered by a busy interval contributes no
\* free slot, in either computation.
C9_CoveredDayHasNoSlots ==
  \A i \in 1..Len(dates) :
    (IsISODate(dates[i]) /\ Covered(dates[i])) =>
      /\ "fixed" \in ran => OnDate(fixedSlots, dates[i]) = {}
      /\ "gap" \in ran => OnDate(gapSlots, dates[i]) = {}

\* The slots of the grid of a date: slotMinutes long, from workingStartHour on
GridSlots(dateStr) ==
  {[start |-> DayOrigin(dateStr) + workingStartHour * 60 + k * slotMinutes,
    end |-> DayOrigin(dateStr) + workingStartHour * 60 + (k + 1) * slotMinutes] :
     k \in 0..(SlotsPerDay - 1)}

\* Minutes between a slot and a busy interval; negative when they overlap
Gap(slot, busy) ==
  IF busy.start - slot.end >= slot.start - busy.end
  THEN busy.start - slot.end
  ELSE slot.start - busy.end

Returned(slots, slot) ==
  \E i \in 1..Len(slots) : slots[i].start = slot.start /\ slots[i].end = slot.end

BufferHonoured(slots) ==
  LET busy == getBusyEvents(dates)
  IN \A i \in 1..Len(dates) :
       IsISODate(dates[i]) =>
         \A slot \in GridSlots(dates[i]) :
           /\ (\E j \in 1..Len(busy) : Gap(slot, Instants(busy[j])) < bufferMinutes)
                => ~Returned(slots, slot)
           /\ (\A j \in 1..Len(busy) : Gap(slot, Instants(busy[j])) >= bufferMinutes)
                => Returned(slots, slot)

\* C10: a slot closer than bufferMinutes to a busy interval is not returned,
\* and a slot at least bufferMinutes away from every busy interval is, in
\* either computation.
C10_BufferInvariant ==
  /\ "fixed" \in ran => BufferHonoured(fixedSlots)
  /\ "gap" \in ran => BufferHonoured(gapSlots)

\* The orders a list can be supplied in
Orders(s) ==
  {[i \in 1..Len(s) |-> s[f[i]]] : f \in Permutations(1..Len(s))}

\* C11: the busy events supplied in another order (overlapping ones
\* included) give the same output sequence, in either computation.
C11_OrderOfBusyEventsIrrelevant ==
  \A evs \in Orders(getBusyEvents(dates)) :
    /\ "fixed" \in ran =>
         FreeSlotsOfDates(DatesAfterGetBusyEvents(dates), timeZone, evs) = fixedSlots
    /\ "gap" \in ran =>
         ActualFreeSlotsOfDates(DatesAfterGetBusyEvents(dates), timeZone, evs) = gapSlots

\* C11 witness: both computations ran on two overlapping busy events that
\* start together and end apart, and neither returned the full day.
C11_Witness ==
  /\ ran = {"fixed", "gap"}
  /\ Len(events) = 2
  /\ Instants(events[1]).start = Instants(events[2]).start
  /\ Instants(events[1]).end < Instants(events[2]).end
  /\ Len(fixedSlots) < SlotsPerDay
  /\ Len(gapSlots) < SlotsPerDay

\* The scenario: 2025-07-25 at -07:00, one busy event 14:00-14:30 (-07:00)
Scenario ==
  /\ calendar
  /\ dates = <<"2025-07-25">>
  /\ timeZone = "-07:00"
  /\ Len(events) = 1
  /\ Instants(events[1]).start = DayOrigin("2025-07-25") + 14 * 60
  /\ Instants(events[1]).end = DayOrigin("2025-07-25") + 14 * 60 + 30

\* The day's slots minus 13:30-14:00, 14:00-14:30 and 14:30-15:00
ScenarioSlots ==
  {slot \in GridSlots("2025-07-25") :
     slot.start - DayOrigin("2025-07-25") \notin {13 * 60 + 30, 14 * 60, 14 * 60 + 30}}

IsExactly(slots, expected) ==
  /\ Len(slots) = Cardinality(expected)
  /\ \A slot \in expected : Returned(slots, slot)

\* C12: in the scenario (2025-07-25, -07:00, 9-18, 30-minute slots, 5-minute
\* buffer, busy 14:00-14:30) the result is the day's slots minus exactly
\* 13:30-14:00, 14:00-14:30 and 14:30-15:00, in either computation.
C12_ScenarioResult ==
  Scenario =>
    /\ "fixed" \in ran => IsExactly(fixedSlots, ScenarioSlots)
    /\ "gap" \in ran => IsExactly(gapSlots, ScenarioSlots)

\* The slots of a result as a set of pairs of instants
SlotSet(slots) ==
  {[start |-> slots[i].start, end |-> slots[i].end] : i \in 1..Len(slots)}

\* C13: on a well-formed input (valid dates, a fixed-offset zone, busy events
\* with start < end) getActualFreeSlots and getFreeSlotsForDates return the
\* same set of free slots.
C13_ModesAgree ==
  (ran = {"fixed", "gap"} /\ AllDatesValid) =>
    SlotSet(gapSlots) = SlotSet(fixedSlots)

\* The slot lies in the working window of a requested date, in the requested zone
InWorkingWindow(slot) ==
  \E j \in 1..Len(dates) :
    /\ IsISODate(dates[j])
    /\ DayOrigin(dates[j]) + workingStartHour * 60 <= slot.start
    /\ slot.end <= DayOrigin(dates[j]) + workingEndHour * 60

Overlaps(slot, busy) == slot.start < busy.end /\ busy.start < slot.end

WellPlaced(slots) ==
  \A i \in 1..Len(slots) :
    /\ slots[i].end - slots[i].start = slotMinutes
    /\ InWorkingWindow(slots[i])
    /\ \A j \in 1..Len(getBusyEvents(dates)) :
         ~Overlaps(slots[i], Instants(getBusyEvents(dates)[j]))

\* C14: every returned slot is slotMinutes long, lies inside the working
\* window [workingStartHour, workingEndHour) of one requested date in the
\* requested zone, and overlaps no busy interval, in either computation.
C14_SlotsWellPlaced ==
  /\ "fixed" \in ran => WellPlaced(fixedSlots)
  /\ "gap" \in ran => WellPlaced(gapSlots)

(***************************************************************************)
(* Properties of the free-slot computations on several dates (SpecDates)   *)
(***************************************************************************)
SortedByStart(slots) ==
  \A i \in 1..(Len(slots) - 1) : slots[i].start <= slots[i + 1].start

\* C15: the output is sorted by start instant ascending, whatever the order
\* of the requested dates and whatever the zone offset, in either computation.
C15_OutputSorted ==
  /\ "fixed" \in ran => SortedByStart(fixedSlots)
  /\ "gap" \in ran => SortedByStart(gapSlots)

SomeDateMalformed == \E i \in 1..Len(dates) : ~IsISODate(dates[i])

\* The slots of `slots` on the local day `dateStr`, as they were returned
SlotsOn(slots, dateStr) == {slots[k] : k \in OnDate(slots, dateStr)}

\* The slots of `alone`, the result for [dateStr] requested alone
AsAlone(slots, dateStr, alone) ==
  SlotsOn(slots, dateStr) = {alone[k] : k \in 1..Len(alone)}

OnlyValidDates(slots) ==
  \A k \in 1..Len(slots) :
    \E i \in 1..Len(dates) : IsISODate(dates[i]) /\ k \in OnDate(slots, dates[i])

\* C16: with a malformed date among the requested dates, no slot is returned
\* for it and every valid date of the call gets exactly the slots it gets
\* when it is requested alone, in either computation.
C16_MalformedDateIsolated ==
  SomeDateMalformed =>
    /\ "fixed" \in ran =>
         /\ OnlyValidDates(fixedSlots)
         /\ \A i \in 1..Len(dates) :
              IsISODate(dates[i]) =>
                AsAlone(fixedSlots, dates[i], getFreeSlotsForDates(<<dates[i]>>, timeZone))
    /\ "gap" \in ran =>
         /\ OnlyValidDates(gapSlots)
         /\ \A i \in 1..Len(dates) :
              IsISODate(dates[i]) =>
                AsAlone(gapSlots, dates[i], getActualFreeSlots(<<dates[i]>>, timeZone))

(***************************************************************************)
(* Properties of the polling controller: failures (specification Spec)     *)
(***************************************************************************)
\* An invocation is in the loop body for the message
Processing(id) ==
  \E p \in PollIds :
    /\ polls[p].pc \notin {"idle", "list", "done"}
    /\ Cur(p) = id

\* The message was claimed and its processing has ended, well or not
Ended(id) == id \in seenMessageIds /\ ~Processing(id)

\* C17: every claimed message whose processing has ended, a failed step
\* (full-message fetch, calendar initialisation, busy-event fetch, ranking)
\* included, had its mark-as-read call made.
C17_EndedMessagesMarked ==
  \A id \in Ids : Ended(id) => calls[id]["modify"] >= 1

\* C18: a message whose classification call failed (the classifier answered
\* with its error result) gets no reply, and once its processing has ended
\* its mark-as-read call was made.
C18_ClassificationFailureNoReply ==
  \A id \in Ids :
    oracle[id] = checkIfMessageMeetingRelated(FALSE, "false") =>
      /\ calls[id]["send"] = 0
      /\ Ended(id) => calls[id]["modify"] >= 1

\* C19: once an id is in seenMessageIds and no invocation is in the loop
\* body for it, no further call (fetch, classification, reply, mark-as-read
\* or any other) is made for it, whether or not it is still unread.
C19_NoReprocessing ==
  [][\A id \in Ids : Ended(id) => calls'[id] = calls[id]]_vars

\* C19 witness: the processing of a message failed after its classification
\* (no mark-as-read call, the message still unread), two finished
\* invocations listed it, and it was fetched and classified once.
C19_Witness ==
  \E id \in Ids : \E p, q \in PollIds :
    /\ p < q
    /\ polls[p].pc = "done" /\ polls[q].pc = "done"
    /\ Listed(p, id) /\ Listed(q, id)
    /\ Ended(id)
    /\ id \in unread
    /\ calls[id]["modify"] = 0
    /\ calls[id]["get"] = 1
    /\ calls[id]["classify"] = 1

\* The invocation returned from a failed messages.list: no list, no position
ListFailed(p) == polls[p].pc = "done" /\ polls[p].idx = 0

\* The messages of its list the loop of the invocation has reached
Reached(p) ==
  {polls[p].msgs[i] : i \in {j \in 1..Len(polls[p].msgs) : j <= polls[p].idx}}

\* C20: the step in which messages.list fails changes neither seenMessageIds
\* nor the calls made (no mark-as-read, no reply) nor the unread messages nor
\* the timer; and an invocation started after it claims every message of its
\* own list that its loop reaches.
C20_ListFailureLeavesAllForNextTick ==
  /\ [][\A p \in PollIds :
         (polls[p].pc = "list" /\ polls'[p].pc = "done" /\ polls'[p].idx = 0) =>
           /\ seenMessageIds' = seenMessageIds
           /\ calls' = calls
           /\ unread' = unread
           /\ activeTimers' = activeTimers]_vars
  /\ [](\A p, q \in PollIds :
         (p < q /\ ListFailed(p)) => Reached(q) \subseteq seenMessageIds)

\* C20 witness: the list call of an invocation failed, and the invocation
\* started after it listed a message, fetched it and made its mark-as-read call.
C20_Witness ==
  \E id \in Ids : \E p, q \in PollIds :
    /\ p < q
    /\ ListFailed(p)
    /\ polls[q].pc = "done"
    /\ polls[q].msgs = <<id>>
    /\ calls[id]["get"] = 1
    /\ calls[id]["modify"] = 1

(***************************************************************************)
(* Properties of the polling controller: the timer (specification Spec)    *)
(***************************************************************************)
\* C21: while polling is stopped (from stopPolling until the next
\* startPolling) no interval timer is left and no pollUnreadMessages
\* invocation is started; stopPolling itself leaves every invocation in
\* flight as it is, so it runs on to its end.
C21_StoppedTimerStartsNoPoll ==
  /\ [](pollingInterval = 0 => activeTimers = {})
  /\ [][(pollingInterval = 0 /\ pollingInterval' = 0) =>
          \A p \in PollIds : polls[p].pc = "idle" => polls'[p].pc = "idle"]_vars
  /\ [][(pollingInterval # 0 /\ pollingInterval' = 0) => polls' = polls]_vars

\* C21 witness: polling was started and stopped while an invocation is in
\* flight, with a message claimed by it, and another invocation could start.
C21_Witness ==
  /\ gmail
  /\ timerCount >= 1
  /\ pollingInterval = 0
  /\ IdlePolls # {}
  /\ \E p \in InFlight : polls[p].pc = "classify"

\* The scheduling the monitor can count on: an active interval timer fires.
\* Nothing makes an awaited external call return.
SpecTimer == Spec /\ \A t \in 1..MaxTimers : WF_vars(TimerTick(t))

\* C22: an invocation whose external call never returns is abandoned at a
\* deadline: every invocation that was started comes to its end.
C22_HungPollAbandoned ==
  \A p \in PollIds : (polls[p].pc # "idle") ~> (polls[p].pc = "done")

\* Whether a slot starts at workingStartHour of a requested date plus a
\* whole multiple of slotMinutes
OnGrid(slot) ==
  \E j \in 1..Len(dates) :
    /\ IsISODate(dates[j])
    /\ \E k \in 0..(SlotsPerDay - 1) :
         slot.start = DayOrigin(dates[j]) + workingStartHour * 60 + k * slotMinutes

\* C28: every slot returned by getActualFreeSlots starts at the start of the
\* working day plus a whole multiple of slotMinutes, also when a busy
\* interval ends off that grid.
C28_GapSlotsOnGrid ==
  "gap" \in ran => \A i \in 1..Len(gapSlots) : OnGrid(gapSlots[i])

\* Whether invocation p is in the loop body for a message of its list
InBody(p) == polls[p].idx \in 1..Len(polls[p].msgs)

\* C26: within one invocation the list never changes and the cursor only
\* moves forward, a position is passed over only when its id is already in
\* seenMessageIds, and a call is made for a message only by the invocation
\* whose cursor is on it: the pipeline of a message is over when the
\* invocation moves to the next one.
C26_ListOrderOneAtATime ==
  /\ [][\A p \in PollIds :
          /\ polls[p].pc \notin {"idle", "list"} =>
               /\ polls'[p].msgs = polls[p].msgs
               /\ polls'[p].idx >= polls[p].idx
          /\ polls'[p].idx # polls[p].idx =>
               \A i \in (polls[p].idx + 1)..(polls'[p].idx - 1) :
                 i <= Len(polls'[p].msgs) => polls'[p].msgs[i] \in seenMessageIds]_vars
  /\ [][\A id \in Ids :
          calls'[id] # calls[id] =>
            \E p \in PollIds :
              /\ polls'[p] # polls[p]
              /\ polls'[p].idx \in 1..Len(polls'[p].msgs)
              /\ polls'[p].msgs[polls'[p].idx] = id]_vars

\* C26 witness: an invocation has ended after it ran the loop body for the
\* first and then for the second message of its list.
C26_Witness ==
  \E p \in PollIds :
    /\ polls[p].pc = "done"
    /\ Len(polls[p].msgs) = 2
    /\ polls[p].idx = 3
    /\ polls[p].msgs[1] # polls[p].msgs[2]
    /\ \A q \in PollIds \ {p} : polls[q].pc = "idle"
    /\ calls[polls[p].msgs[1]]["classify"] = 1
    /\ calls[polls[p].msgs[2]]["classify"] = 1

(***************************************************************************)
(* GmailMonitor.checkForNewMessages: one action per await                  *)
(***************************************************************************)
\* catch (err) { ...; return []; }
ReturnOnError(newMessages) == <<>>

EndCheck(c, msgs, at, newMessages, claimed, result) ==
  checks' = [checks EXCEPT ![c] =
               [pc |-> "done", msgs |-> msgs, idx |-> at,
                newMessages |-> newMessages, claimed |-> claimed, result |-> result]]

\* Run the for loop of checkForNewMessages from position `from` up to its
\* next await: skip seen ids, add the first unseen one to seenMessageIds and
\* call messages.get for it, or return newMessages.
CheckContinue(c, msgs, from, newMessages, claimed) ==
  LET j == FirstUnseen(msgs, from, seenMessageIds)
  IN IF j = 0
     THEN /\ EndCheck(c, msgs, Len(msgs) + 1, newMessages, claimed, newMessages)
          /\ UNCHANGED <<seenMessageIds, calls>>
     ELSE /\ seenMessageIds' = Claim(seenMessageIds, msgs[j])
          /\ calls' = Called(msgs[j], "get")
          /\ checks' = [checks EXCEPT ![c] =
                          [pc |-> "get", msgs |-> msgs, idx |-> j,
                           newMessages |-> newMessages,
                           claimed |-> claimed \cup {msgs[j]}, result |-> <<>>]]

\* checkForNewMessages() is called: without a client it returns [] at once,
\* else it calls messages.list and waits.
CheckForNewMessages(c) ==
  /\ checks[c].pc = "idle"
  /\ \A b \in CheckIds : b < c => checks[b].pc # "idle"
  /\ IF gmail
     THEN checks' = [checks EXCEPT ![c].pc = "list"]
     ELSE EndCheck(c, <<>>, 0, <<>>, {}, <<>>)
  /\ UNCHANGED <<pipeVars, slotVars, restVars>>

\* await this.gmail.users.messages.list(...)
CheckListReturn(c) ==
  /\ checks[c].pc = "list"
  /\ \/ /\ EndCheck(c, <<>>, 0, <<>>, {}, ReturnOnError(<<>>))
        /\ UNCHANGED <<seenMessageIds, calls>>
     \/ \E msgs \in ListAnswers : CheckContinue(c, msgs, 1, <<>>, {})
  /\ UNCHANGED <<gmail, timerVars, srcVars, polls, histVars, slotVars, restVars>>

\* await this.gmail.users.messages.get({id}); newMessages.push(fullMsg.data)
CheckGetReturn(c) ==
  /\ checks[c].pc = "get"
  /\ \/ /\ EndCheck(c, checks[c].msgs, checks[c].idx, checks[c].newMessages,
                     checks[c].claimed, ReturnOnError(checks[c].newMessages))
        /\ UNCHANGED <<seenMessageIds, calls>>
     \/ CheckContinue(c, checks[c].msgs, checks[c].idx + 1,
                      Append(checks[c].newMessages, checks[c].msgs[checks[c].idx]),
                      checks[c].claimed)
  /\ UNCHANGED <<gmail, timerVars, srcVars, polls, histVars, slotVars, restVars>>

CheckStep(c) ==
  \/ CheckForNewMessages(c)
  \/ CheckListReturn(c)
  \/ CheckGetReturn(c)

\* The monitor after initialize() and startPolling(), when the first
\* invocation of pollUnreadMessages has listed no message and returned
InitCheck ==
  /\ RestAtRest
  /\ gmail = TRUE
  /\ pollingInterval = 1
  /\ activeTimers = {1}
  /\ timerCount = 1
  /\ seenMessageIds = {}
  /\ unread = {}
  /\ arrived = {}
  /\ polls = [p \in PollIds |->
               IF p = 1 THEN [pc |-> "done", msgs |-> <<>>, idx |-> 1] ELSE IdlePoll]
  /\ calls = [i \in Ids |-> [k \in Kinds |-> 0]]
  /\ oracle = [i \in Ids |-> JsUndefined]
  /\ slotReq = [i \in Ids |-> NoReq]
  /\ sendFailed = {}
  /\ calendar = FALSE
  /\ dates = <<>>
  /\ timeZone = defaultTimeZone
  /\ systemZone = defaultTimeZone
  /\ events = <<>>
  /\ ran = {}
  /\ fixedSlots = <<>>
  /\ gapSlots = <<>>

NextCheck ==
  \/ StartPolling
  \/ StopPolling
  \/ \E t \in 1..MaxTimers : TimerTick(t)
  \/ \E id \in Ids : MessageArrives(id)
  \/ \E p \in PollIds : PollStep(p)
  \/ \E c \in CheckIds : CheckStep(c)

SpecCheck == InitCheck /\ [][NextCheck]_vars

\* C27: no step of startPolling, stopPolling, the timer, pollUnreadMessages
\* or checkForNewMessages removes an id from seenMessageIds.
C27_SeenOnlyGrows ==
  [][seenMessageIds \subseteq seenMessageIds']_vars

\* C27 witness: checkForNewMessages and a later pollUnreadMessages have each
\* added an id, polling was restarted and then stopped, and both ids are
\* in seenMessageIds.
C27_Witness ==
  /\ \E c \in CheckIds : checks[c].pc = "done" /\ checks[c].claimed # {}
  /\ \E p \in PollIds \ {1} : polls[p].pc = "done" /\ polls[p].idx > 1
  /\ seenMessageIds = Ids
  /\ timerCount = 2
  /\ pollingInterval = 0

Range(seq) == {seq[i] : i \in 1..Len(seq)}

\* C29: a call of checkForNewMessages that has returned has returned exactly
\* the messages whose ids it added to seenMessageIds, every listed id is then
\* in seenMessageIds, and no step of the call invokes onMessageReceived.
C29_CheckReturnsWhatItMarks ==
  /\ [](\A c \in CheckIds :
          checks[c].pc = "done" =>
            /\ Range(checks[c].result) = checks[c].claimed
            /\ checks[c].claimed \subseteq seenMessageIds)
  /\ [][\A c \in CheckIds :
          checks'[c] # checks[c] =>
            \A id \in Ids : calls'[id]["callback"] = calls[id]["callback"]]_vars

(***************************************************************************)
(* EmailSSEClient (sse-client.js): connect, disconnect, the handlers of    *)
(* its EventSource objects and the reconnect timeouts                      *)
(***************************************************************************)
MaxSources == 2

MaxPending == 5

\* new EventSource(url): the browser starts connecting
NewSource ==
  /\ sources' = Append(sources, "connecting")
  /\ eventSource' = Len(sources) + 1

\* connect(): returns when connected, else replaces this.eventSource by a new
\* EventSource; the previous one is not closed.
Connect ==
  /\ ~isConnected
  /\ Len(sources) < MaxSources
  /\ NewSource
  /\ disconnected' = FALSE
  /\ UNCHANGED <<isConnected, reconnectAttempts, reconnectDelay, reconnectTimers,
                 emitted>>
  /\ UNCHANGED <<pipeVars, slotVars, checks, mgrVars, streamVars, tokVars>>

\* disconnect()
Disconnect ==
  /\ IF eventSource # 0
     THEN sources' = [sources EXCEPT ![eventSource] = "closed"]
     ELSE UNCHANGED sources
  /\ eventSource' = 0
  /\ isConnected' = FALSE
  /\ emitted' = emitted \cup {"disconnected"}
  /\ disconnected' = TRUE
  /\ UNCHANGED <<reconnectAttempts, reconnectDelay, reconnectTimers>>
  /\ UNCHANGED <<pipeVars, slotVars, checks, mgrVars, streamVars, tokVars>>

\* eventSource.onopen, of any EventSource the client has created
SourceOpens(k) ==
  /\ k \in 1..Len(sources)
  /\ sources[k] = "connecting"
  /\ sources' = [sources EXCEPT ![k] = "open"]
  /\ isConnected' = TRUE
  /\ reconnectAttempts' = 0
  /\ reconnectDelay' = initialReconnectDelay
  /\ emitted' = emitted \cup {"connected"}
  /\ UNCHANGED <<eventSource, reconnectTimers, disconnected>>
  /\ UNCHANGED <<pipeVars, slotVars, checks, mgrVars, streamVars, tokVars>>

Timeout(attempt, delay) == [attempt |-> attempt, delay |-> delay]

\* Mutant for C23: attemptReconnect without the test of maxReconnectAttempts.
AttemptReconnectUnguarded ==
  /\ BagCardinality(reconnectTimers) < MaxPending + 1
  /\ reconnectAttempts' = reconnectAttempts + 1
  /\ reconnectTimers' = reconnectTimers (+)
       SetToBag({Timeout(reconnectAttempts + 1,
                         reconnectDelay * 2 ^ reconnectAttempts)})
  /\ emitted' = emitted \cup {"error"}

\* attemptReconnect(), after onerror has emitted 'error'
attemptReconnect ==
  IF reconnectAttempts >= maxReconnectAttempts
  THEN /\ emitted' = emitted \cup {"error", "maxReconnectAttemptsReached"}
       /\ UNCHANGED <<reconnectAttempts, reconnectTimers>>
  ELSE /\ BagCardinality(reconnectTimers) < MaxPending
       /\ reconnectAttempts' = reconnectAttempts + 1
       /\ reconnectTimers' = reconnectTimers (+)
            SetToBag({Timeout(reconnectAttempts + 1,
                              reconnectDelay * 2 ^ ((reconnectAttempts + 1) - 1))})
       /\ emitted' = emitted \cup {"error"}

\* eventSource.onerror, of any EventSource the client has created: the
\* browser either retries by itself (readyState CONNECTING) or gives the
\* EventSource up (readyState CLOSED).
SourceErrors(k) ==
  /\ k \in 1..Len(sources)
  /\ sources[k] \in {"connecting", "open"}
  /\ \E after \in {"connecting", "closed"} :
       sources' = [sources EXCEPT ![k] = after]
  /\ isConnected' = FALSE
  /\ attemptReconnect
  /\ UNCHANGED <<eventSource, reconnectDelay, disconnected>>
  /\ UNCHANGED <<pipeVars, slotVars, checks, mgrVars, streamVars, tokVars>>

\* The setTimeout callback of attemptReconnect: if (!isConnected) connect()
TimeoutFires(t) ==
  /\ BagIn(t, reconnectTimers)
  /\ reconnectTimers' = reconnectTimers (-) SetToBag({t})
  /\ IF isConnected
     THEN UNCHANGED <<sources, eventSource>>
     ELSE /\ Len(sources) < MaxSources
          /\ NewSource
  /\ UNCHANGED <<isConnected, reconnectAttempts, reconnectDelay, emitted, disconnected>>
  /\ UNCHANGED <<pipeVars, slotVars, checks, mgrVars, streamVars, tokVars>>

Timeouts ==
  {Timeout(a, initialReconnectDelay * 2 ^ e) :
     a \in 1..(maxReconnectAttempts + 1), e \in 0..maxReconnectAttempts}

NextSSEClient ==
  \/ Connect
  \/ Disconnect
  \/ \E k \in 1..MaxSources : SourceOpens(k)
  \/ \E k \in 1..MaxSources : SourceErrors(k)
  \/ \E t \in Timeouts : TimeoutFires(t)

SpecSSEClient == Init /\ [][NextSSEClient]_vars

\* C23: reconnectAttempts never exceeds maxReconnectAttempts; every pending
\* reconnect waits reconnectDelay * 2^(attempt-1); a successful open resets
\* reconnectAttempts to 0; and from a state in which the maximum is reached
\* no step schedules a further connect.
C23_BackoffAndGiveUp ==
  /\ [](reconnectAttempts \in 0..maxReconnectAttempts)
  /\ [](\A t \in BagToSet(reconnectTimers) :
          /\ t.attempt \in 1..maxReconnectAttempts
          /\ t.delay = reconnectDelay * 2 ^ (t.attempt - 1))
  /\ [][(\E k \in 1..Len(sources) : sources[k] = "connecting" /\ sources'[k] = "open")
          => reconnectAttempts' = 0]_vars
  /\ [][reconnectAttempts = maxReconnectAttempts =>
          \A t \in BagToSet(reconnectTimers') :
            CopiesIn(t, reconnectTimers') <= CopiesIn(t, reconnectTimers)]_vars

\* C23 witness: the client was connected once, then every reconnect failed:
\* the maximum is reached and a further error has made it give up.
C23_Witness ==
  /\ "connected" \in emitted
  /\ "maxReconnectAttemptsReached" \in emitted
  /\ reconnectAttempts = maxReconnectAttempts
  /\ ~isConnected
  /\ BagCardinality(reconnectTimers) = MaxPending

(***************************************************************************)
(* SSEManager and the GET /sse endpoint (mcp-server-remote.ts)             *)
(***************************************************************************)
MaxBroadcasts == 2

Registered == Range(clients)

\* this.clients.set(clientId, ...)
addClient(cs, c) == IF c \in Range(cs) THEN cs ELSE Append(cs, c)

\* this.clients.delete(clientId)
removeClient(cs, c) == SelectSeq(cs, LAMBDA x : x # c)

getClientCount == Len(clients)

\* GET /sse: a new client id, the headers and the first event are written,
\* the client is registered and the close and error handlers are attached.
SseConnect(c) ==
  /\ conns[c] = "none"
  /\ \A b \in ConnIds : b < c => conns[b] # "none"
  /\ conns' = [conns EXCEPT ![c] = "open"]
  /\ clients' = addClient(clients, c)
  /\ UNCHANGED <<delivered, offered>>
  /\ UNCHANGED <<pipeVars, slotVars, checks, clientVars, streamVars, tokVars>>

\* The transport of a connection fails; no event has reached the server yet.
ConnBreaks(c) ==
  /\ conns[c] = "open"
  /\ conns' = [conns EXCEPT ![c] = "broken"]
  /\ UNCHANGED <<clients, delivered, offered>>
  /\ UNCHANGED <<pipeVars, slotVars, checks, clientVars, streamVars, tokVars>>

\* req.on('error', () => sseManager.removeClient(clientId))
ReqError(c) ==
  /\ conns[c] \in {"open", "broken"}
  /\ conns' = [conns EXCEPT ![c] = "errored"]
  /\ clients' = removeClient(clients, c)
  /\ UNCHANGED <<delivered, offered>>
  /\ UNCHANGED <<pipeVars, slotVars, checks, clientVars, streamVars, tokVars>>

\* req.on('close', () => sseManager.removeClient(clientId))
ReqClose(c) ==
  /\ conns[c] \in {"open", "broken", "errored"}
  /\ conns' = [conns EXCEPT ![c] = "closed"]
  /\ clients' = removeClient(clients, c)
  /\ UNCHANGED <<delivered, offered>>
  /\ UNCHANGED <<pipeVars, slotVars, checks, clientVars, streamVars, tokVars>>

\* this.clients.forEach(...): the clients whose res.write returned
Written(cs, throwers) == Range(cs) \ throwers

\* Mutant for C24: the catch logs the error and removes nothing.
CaughtKept(cs, throwers) == {}

\* catch (error) { ...; this.removeClient(clientId); }
Caught(cs, throwers) == Range(cs) \cap throwers

RECURSIVE RemoveAll(_, _)
RemoveAll(cs, S) ==
  IF S = {} THEN cs
  ELSE LET c == CHOOSE x \in S : TRUE
       IN RemoveAll(removeClient(cs, c), S \ {c})

\* broadcastToAll(event, data): res.write may throw only for a connection
\* whose transport has failed; every thrower is removed in the catch.
BroadcastToAll ==
  /\ \A c \in ConnIds : offered[c] < MaxBroadcasts
  /\ \E throwers \in SUBSET {c \in Registered : conns[c] = "broken"} :
       /\ delivered' = [c \in ConnIds |->
                          IF c \in Written(clients, throwers)
                          THEN delivered[c] + 1 ELSE delivered[c]]
       /\ clients' = RemoveAll(clients, Caught(clients, throwers))
  /\ offered' = [c \in ConnIds |->
                   IF c \in Registered THEN offered[c] + 1 ELSE offered[c]]
  /\ UNCHANGED conns
  /\ UNCHANGED <<pipeVars, slotVars, checks, clientVars, streamVars, tokVars>>

NextSSE ==
  \/ \E c \in ConnIds : SseConnect(c)
  \/ \E c \in ConnIds : ConnBreaks(c)
  \/ \E c \in ConnIds : ReqError(c)
  \/ \E c \in ConnIds : ReqClose(c)
  \/ BroadcastToAll

SpecSSE == Init /\ [][NextSSE]_vars

OpenConns == {c \in ConnIds : conns[c] = "open"}

BrokenConns == {c \in ConnIds : conns[c] = "broken"}

\* C24: a registered client has received every event broadcast while it was
\* registered, a client that missed one (its write threw) is not registered
\* any more; a connection whose close or error handler has run is not
\* registered, every open connection is, and getClientCount is the number
\* of open connections once no failed transport waits for its event.
C24_BroadcastAndRegistry ==
  /\ \A c \in ConnIds :
       /\ delivered[c] <= offered[c]
       /\ c \in Registered => delivered[c] = offered[c]
       /\ conns[c] \in {"none", "errored", "closed"} => c \notin Registered
  /\ OpenConns \subseteq Registered
  /\ Registered \subseteq OpenConns \cup BrokenConns
  /\ Len(clients) = Cardinality(Registered)
  /\ BrokenConns = {} => getClientCount = Cardinality(OpenConns)

\* C24 witness: in one broadcast a client received the event and is still
\* registered while another one threw and was removed, and a third
\* connection was closed.
C24_Witness ==
  \E a, b, c \in ConnIds :
    /\ a \in Registered /\ delivered[a] = 1 /\ offered[a] = 1
    /\ b \notin Registered /\ conns[b] = "broken" /\ delivered[b] = 0 /\ offered[b] = 1
    /\ conns[c] = "closed"
    /\ getClientCount = 1

(***************************************************************************)
(* POST /mcp (mcp-server-remote.ts) with the tools of mcp-mcp-logic.ts:    *)
(* streaming mode, its keep-alive interval and its close handler           *)
(***************************************************************************)
ToolCalls == {"start_watching_for_new_emails", "stop_watching_for_new_emails"}

\* Intervals the streaming requests may set: two per start request
MaxStreamTimers == 2 * MaxStreamReqs

\* gmailMonitor.stopPolling(), which does nothing without an interval
stopPollingCall ==
  IF pollingInterval # 0 THEN stopPolling ELSE UNCHANGED <<pipeVars, slotVars>>

\* The tool handlers registered by setupMcpServer
RunTool(name) ==
  IF name = "start_watching_for_new_emails"
  THEN startPollingUpTo(MaxStreamTimers)
  ELSE stopPollingCall

\* A tools/call request arrives: transport.handleRequest runs the tool and
\* the handler waits for it.
PostMcp(r, name) ==
  /\ reqs[r].state = "none"
  /\ \A q \in ReqIds : q < r => reqs[q].state # "none"
  /\ RunTool(name)
  /\ reqs' = [reqs EXCEPT ![r] = [kind |-> name, state |-> "handled", gone |-> FALSE]]
  /\ UNCHANGED <<isStreamingMode, streamingRes, keepAlive, closeHandlers>>
  /\ UNCHANGED <<checks, clientVars, mgrVars, tokVars>>

\* isStartWatching: the mode is switched, then res.writeHead throws when
\* transport.handleRequest has already sent the headers of res; otherwise
\* polling is started again, the keep-alive interval is set and the close
\* handler is attached.
SwitchToStreaming(r) ==
  /\ isStreamingMode' = TRUE
  /\ streamingRes' = r
  /\ \E headersSent \in BOOLEAN :
       IF headersSent
       THEN /\ reqs' = [reqs EXCEPT ![r].state = "failed"]
            /\ UNCHANGED <<keepAlive, closeHandlers, pipeVars, slotVars>>
       ELSE /\ reqs' = [reqs EXCEPT ![r].state = "streaming"]
            /\ startPollingUpTo(MaxStreamTimers)
            /\ keepAlive' = keepAlive \cup {r}
            /\ closeHandlers' = closeHandlers \cup {r}

\* else if (isStreamingMode): the request is handled once more and the
\* answer is written to streamingRes; a throw of that write resets the mode.
\* else: the request is handled once more.
AnswerRequest(r) ==
  /\ RunTool(reqs[r].kind)
  /\ reqs' = [reqs EXCEPT ![r].state = "answered"]
  /\ IF isStreamingMode /\ streamingRes # 0
     THEN \E throws \in {FALSE, reqs[streamingRes].gone} :
            IF throws
            THEN isStreamingMode' = FALSE /\ streamingRes' = 0
            ELSE UNCHANGED <<isStreamingMode, streamingRes>>
     ELSE UNCHANGED <<isStreamingMode, streamingRes>>
  /\ UNCHANGED <<keepAlive, closeHandlers>>

\* The handler of POST /mcp after await transport.handleRequest(...)
PostMcpBranch(r) ==
  /\ reqs[r].state = "handled"
  /\ IF reqs[r].kind = "start_watching_for_new_emails"
     THEN SwitchToStreaming(r)
     ELSE AnswerRequest(r)
  /\ UNCHANGED <<checks, clientVars, mgrVars, tokVars>>

\* The setInterval callback of the streaming branch
KeepAliveTick(r) ==
  /\ r \in keepAlive
  /\ IF isStreamingMode /\ streamingRes # 0
     THEN \E throws \in {FALSE, reqs[r].gone} :
            IF throws
            THEN /\ keepAlive' = keepAlive \ {r}
                 /\ isStreamingMode' = FALSE
                 /\ streamingRes' = 0
            ELSE UNCHANGED <<isStreamingMode, streamingRes, keepAlive>>
     ELSE /\ keepAlive' = keepAlive \ {r}
          /\ UNCHANGED <<isStreamingMode, streamingRes>>
  /\ UNCHANGED <<closeHandlers, reqs, pipeVars, slotVars>>
  /\ UNCHANGED <<checks, clientVars, mgrVars, tokVars>>

\* onNewGmailMessage: the notification is written to streamingRes, a throw
\* of that write resets the mode (the broadcast to the SSE clients is
\* BroadcastToAll).
OnNewGmailMessage ==
  /\ isStreamingMode /\ streamingRes # 0
  /\ \E throws \in {FALSE, reqs[streamingRes].gone} :
       IF throws
       THEN isStreamingMode' = FALSE /\ streamingRes' = 0
       ELSE UNCHANGED <<isStreamingMode, streamingRes>>
  /\ UNCHANGED <<keepAlive, closeHandlers, reqs, pipeVars, slotVars>>
  /\ UNCHANGED <<checks, clientVars, mgrVars, tokVars>>

\* The client of request r disconnects, at any time after the request has
\* arrived: req emits 'close', and the handler of the streaming branch runs
\* if it is attached by then.
ClientDisconnects(r) ==
  /\ reqs[r].state # "none"
  /\ ~reqs[r].gone
  /\ reqs' = [reqs EXCEPT ![r].gone = TRUE]
  /\ IF r \in closeHandlers
     THEN /\ isStreamingMode' = FALSE
          /\ streamingRes' = 0
          /\ keepAlive' = keepAlive \ {r}
          /\ stopPollingCall
     ELSE UNCHANGED <<isStreamingMode, streamingRes, keepAlive, pipeVars, slotVars>>
  /\ UNCHANGED closeHandlers
  /\ UNCHANGED <<checks, clientVars, mgrVars, tokVars>>

NextStream ==
  \/ Initialize
  \/ \E r \in ReqIds, name \in ToolCalls : PostMcp(r, name)
  \/ \E r \in ReqIds : PostMcpBranch(r)
  \/ \E r \in ReqIds : KeepAliveTick(r)
  \/ \E r \in ReqIds : ClientDisconnects(r)
  \/ OnNewGmailMessage

SpecStream == Init /\ [][NextStream]_vars

\* Regular JSON-RPC mode with nothing of the streaming mode left over
StreamingCleanedUp ==
  /\ isStreamingMode = FALSE
  /\ streamingRes = 0
  /\ keepAlive = {}
  /\ pollingInterval = 0
  /\ activeTimers = {}

\* C25: the step in which the streaming client disconnects, and the step
\* that completes a stop_watching_for_new_emails call, each leave streaming
\* mode off, streamingRes null, no keep-alive interval and no polling timer.
C25_StreamingCleanedUp ==
  /\ [][\A r \in ReqIds :
          (/\ streamingRes = r
           /\ reqs[r].state \in {"streaming", "failed"}
           /\ ~reqs[r].gone
           /\ reqs'[r].gone) => StreamingCleanedUp']_vars
  /\ [][\A r \in ReqIds :
          (/\ reqs[r].kind = "stop_watching_for_new_emails"
           /\ reqs[r].state = "handled"
           /\ reqs'[r].state = "answered") => StreamingCleanedUp']_vars

(***************************************************************************)
(* TokenManager.refreshToken / refreshAllTokens (token-manager.ts)         *)
(***************************************************************************)
MaxCallers == 3

\* this.tokens.values(): one token per user email, in insertion order
TokenOrder == <<"a@x", "b@x">>

TokenResults == {"token", "null"}

\* Minutes an access token of Google is valid from the refresh on:
\* credentials.expiry_date is the time of the answer plus expires_in
tokenLifetime == 60

\* Mutant for C30: the test of the map is dropped.
InProgressIgnored(inProgress, e) == FALSE

\* this.refreshInProgress.has(userEmail)
InProgress(inProgress, e) == inProgress[e] # 0

TokenState ==
  [inProgress |-> refreshInProgress, refreshes |-> refreshes, callers |-> callers]

Caller(e, promise, owner) ==
  [email |-> e, promise |-> promise, owner |-> owner, state |-> "waiting",
   result |-> "none"]

\* refreshToken(token) up to its await: a caller that finds a promise in the
\* map returns it; otherwise performTokenRefresh is started, its promise is
\* put in the map and the caller awaits it.
refreshToken(st, e) ==
  IF InProgress(st.inProgress, e)
  THEN [st EXCEPT !.callers = Append(@, Caller(e, st.inProgress[e], FALSE))]
  ELSE [inProgress |-> [st.inProgress EXCEPT ![e] = Len(st.refreshes) + 1],
        refreshes |-> Append(st.refreshes,
                             [email |-> e, state |-> "pending", result |-> "none",
                              expiry_date |-> 0]),
        callers |-> Append(st.callers, Caller(e, Len(st.refreshes) + 1, TRUE))]

\* tokensToRefresh.map(token => this.refreshToken(token)...)
RECURSIVE refreshEach(_, _)
refreshEach(st, tokensToRefresh) ==
  IF tokensToRefresh = <<>> THEN st
  ELSE refreshEach(refreshToken(st, Head(tokensToRefresh)), Tail(tokensToRefresh))

SetTokenState(st) ==
  /\ refreshInProgress' = st.inProgress
  /\ refreshes' = st.refreshes
  /\ callers' = st.callers

RefreshToken(e) ==
  /\ Len(callers) < MaxCallers
  /\ SetTokenState(refreshToken(TokenState, e))
  /\ UNCHANGED <<tokens, clock, isInitialized, gets, auth>>
  /\ UNCHANGED <<pipeVars, slotVars, checks, clientVars, mgrVars, streamVars>>

\* refreshAllTokens(): every expired or expiring token is refreshed, the
\* calls of refreshToken are made in one synchronous stretch.
RefreshAllTokens ==
  \E expiring \in SUBSET Emails :
    /\ expiring # {}
    /\ Len(callers) + Cardinality(expiring) <= MaxCallers
    /\ SetTokenState(refreshEach(TokenState,
                                 SelectSeq(TokenOrder, LAMBDA e : e \in expiring)))
    /\ UNCHANGED <<tokens, clock, isInitialized, gets, auth>>
    /\ UNCHANGED <<pipeVars, slotVars, checks, clientVars, mgrVars, streamVars>>

\* The promise of performTokenRefresh settles: with the new token, which is
\* put in this.tokens, or with null on any error, the token being removed
\* from this.tokens when the error is invalid_grant.
PerformTokenRefreshReturns(i) ==
  /\ i \in 1..Len(refreshes)
  /\ refreshes[i].state = "pending"
  /\ \E result \in TokenResults :
       IF result = "token"
       THEN /\ refreshes' = [refreshes EXCEPT ![i] =
                              [@ EXCEPT !.state = "settled", !.result = result,
                                        !.expiry_date = clock + tokenLifetime]]
            /\ tokens' = [tokens EXCEPT ![refreshes[i].email] =
                                         TokenData(clock + tokenLifetime)]
       ELSE /\ refreshes' = [refreshes EXCEPT ![i] =
                              [@ EXCEPT !.state = "settled", !.result = result]]
            /\ \E invalidGrant \in BOOLEAN :
                 IF invalidGrant
                 THEN tokens' = [tokens EXCEPT ![refreshes[i].email] = NoToken]
                 ELSE UNCHANGED tokens
  /\ UNCHANGED <<refreshInProgress, callers, clock, isInitialized, gets, auth>>
  /\ UNCHANGED <<pipeVars, slotVars, checks, clientVars, mgrVars, streamVars>>

\* A caller gets the value of the promise it holds; the caller that started
\* the refresh then runs its finally: this.refreshInProgress.delete(userEmail)
CallerResumes(k) ==
  /\ k \in 1..Len(callers)
  /\ callers[k].state = "waiting"
  /\ refreshes[callers[k].promise].state = "settled"
  /\ callers' = [callers EXCEPT ![k] = [@ EXCEPT !.state = "returned",
                     !.result = refreshes[callers[k].promise].result]]
  /\ IF callers[k].owner
     THEN refreshInProgress' = [refreshInProgress EXCEPT ![callers[k].email] = 0]
     ELSE UNCHANGED refreshInProgress
  /\ UNCHANGED <<refreshes, tokens, clock, isInitialized, gets, auth>>
  /\ UNCHANGED <<pipeVars, slotVars, checks, clientVars, mgrVars, streamVars>>

NextTokens ==
  \/ \E e \in Emails : RefreshToken(e)
  \/ RefreshAllTokens
  \/ \E i \in 1..MaxCallers : PerformTokenRefreshReturns(i)
  \/ \E k \in 1..MaxCallers : CallerResumes(k)

SpecTokens == Init /\ [][NextTokens]_vars

InFlightFor(e) ==
  {i \in 1..Len(refreshes) : refreshes[i].email = e /\ refreshes[i].state = "pending"}

\* C30: at any time at most one performTokenRefresh is pending per user
\* email; a call of refreshToken made while one is pending starts no other
\* and holds the pending promise; and every caller that has returned has
\* the result of the refresh it holds, which is one for its own email.
C30_OneRefreshPerUser ==
  /\ [](\A e \in Emails : Cardinality(InFlightFor(e)) <= 1)
  /\ [](\A k \in 1..Len(callers) :
          /\ refreshes[callers[k].promise].email = callers[k].email
          /\ callers[k].state = "returned" =>
               /\ refreshes[callers[k].promise].state = "settled"
               /\ callers[k].result = refreshes[callers[k].promise].result)
  /\ [][\A k \in (Len(callers) + 1)..Len(callers') :
          InFlightFor(callers'[k].email) # {} =>
            /\ callers'[k].promise \in InFlightFor(callers'[k].email)
            /\ \A i \in (Len(refreshes) + 1)..Len(refreshes') :
                 refreshes'[i].email # callers'[k].email]_vars

\* C30 witness: a second caller arrived while a refresh of the same user
\* was pending, both have returned its result, and a later caller has
\* started the next refresh for that user.
C30_Witness ==
  /\ Len(callers) = 3
  /\ Len(refreshes) = 2
  /\ \A k \in 1..3 : callers[k].email = callers[1].email
  /\ callers[1].owner /\ ~callers[2].owner /\ callers[3].owner
  /\ callers[1].state = "returned" /\ callers[2].state = "returned"
  /\ callers[1].result = "token" /\ callers[2].result = "token"
  /\ callers[3].promise = 2 /\ refreshes[2].state = "pending"

\* C33: at most one interval timer is active, and pollingInterval is
\* non-null exactly when a timer is active, which is then the one it holds.
C33_OneTimerTrackedByField ==
  /\ Cardinality(activeTimers) <= 1
  /\ (pollingInterval # 0) <=> (activeTimers # {})
  /\ activeTimers \subseteq {pollingInterval}

\* C33 witness: startPolling was called twice, and the
\* second interval is the only active one.
C33_Witness ==
  /\ timerCount = 2
  /\ pollingInterval = 2
  /\ activeTimers = {2}

PipelineKinds == Kinds \ {"get"}

\* C32: a message whose id a call of checkForNewMessages added to
\* seenMessageIds, returned or not, is fetched once and is never passed to
\* the callback, classified, answered or marked by pollUnreadMessages; a
\* message that pollUnreadMessages took is fetched once and is in no result
\* of checkForNewMessages.
C32_OnePathPerMessage ==
  /\ \A id \in Ids : calls[id]["get"] <= 1
  /\ \A c \in CheckIds :
       /\ Range(checks[c].result) \subseteq checks[c].claimed
       /\ \A id \in checks[c].claimed :
            /\ calls[id]["get"] = 1
            /\ \A k \in PipelineKinds : calls[id][k] = 0
  /\ \A p \in PollIds :
       InBody(p) => \A c \in CheckIds : Cur(p) \notin checks[c].claimed

\* C32 witness: checkForNewMessages returned a message, and a poll whose
\* list held the same message did not process it and classified another.
C32_Witness ==
  \E c \in CheckIds, p \in PollIds, a, b \in Ids :
    /\ checks[c].pc = "done"
    /\ checks[c].result = <<a>>
    /\ polls[p].msgs = <<a, b>>
    /\ a # b
    /\ calls[b]["classify"] = 1
    /\ calls[a]["get"] = 1
    /\ calls[a]["classify"] = 0

\* C34: as long as disconnect() is the last call made on the client, no
\* EventSource is created and none of the client's EventSources opens, also
\* when a timeout of attemptReconnect is pending.
C34_NoReconnectAfterDisconnect ==
  [][(disconnected /\ disconnected') =>
       /\ Len(sources') = Len(sources)
       /\ \A k \in 1..Len(sources) : sources'[k] = "open" => sources[k] = "open"]_vars

UnclosedSources == {k \in 1..Len(sources) : sources[k] # "closed"}

\* C35: at most one EventSource created by the client is not closed.
C35_OneEventSource ==
  Cardinality(UnclosedSources) <= 1

\* C36: isStreamingMode is true exactly when streamingRes is non-null, and
\* streamingRes is never the response of a client that has disconnected.
C36_StreamingStateConsistent ==
  /\ isStreamingMode <=> (streamingRes # 0)
  /\ streamingRes # 0 => ~reqs[streamingRes].gone

\* C37: when two clients are streaming and the earlier one disconnects, the
\* streaming state of the later one and the polling stay as they are.
C37_FirstDisconnectSparesSecond ==
  [][\A first, second \in ReqIds :
       (/\ first < second
        /\ reqs[first].state = "streaming"
        /\ reqs[second].state = "streaming"
        /\ streamingRes = second
        /\ ~reqs[second].gone
        /\ ~reqs[first].gone
        /\ reqs'[first].gone)
       => /\ isStreamingMode'
          /\ streamingRes' = second
          /\ pollingInterval' = pollingInterval
          /\ activeTimers' = activeTimers]_vars

(***************************************************************************)
(* JWTAuthMiddleware.authenticateJWT (jwt-auth-middleware.ts)              *)
(***************************************************************************)
\* What the request carries as JWT (header or REKURA_JWT_TOKEN): nothing, a
\* token jwt.verify rejects, one it finds expired, or one it accepts
JwtInputs == {"missing", "invalid", "expired", "valid"}

\* What storageService.getTokens(jti) does: rejects, finds nothing, finds a
\* record, or finds a record without google_tokens
StorageOutcomes == {"throws", "none", "found", "malformed"}

Times == 0..2

\* Mutant for C31: a token that expires at this very instant passes.
ExpiredLate(now, expiry) == now > expiry

\* Date.now() >= tokenRecord.google_tokens.expiry_date
Expired(now, expiry) == now >= expiry

Respond(r, fields, status) ==
  auth' = [auth EXCEPT ![r] = [fields EXCEPT !.pc = "done", !.status = status]]

CallNext(r, fields) ==
  auth' = [auth EXCEPT ![r] = [fields EXCEPT !.pc = "done", !.nextCalls = @ + 1]]

\* authenticateJWT up to its await: no token, a token jwt.verify throws on
\* (JsonWebTokenError and its subclass TokenExpiredError) and a token
\* without jti are answered 401; otherwise getTokens is awaited.
AuthenticateJWT(r, jwt, jti) ==
  /\ auth[r].pc = "idle"
  /\ \A q \in AuthIds : q < r => auth[q].pc # "idle"
  /\ LET fields == [auth[r] EXCEPT !.jwt = jwt, !.jti = jti]
     IN IF jwt # "valid" \/ ~jti
        THEN Respond(r, fields, 401)
        ELSE auth' = [auth EXCEPT ![r] = [fields EXCEPT !.pc = "getTokens"]]
  /\ UNCHANGED <<refreshInProgress, refreshes, callers, tokens, clock, isInitialized, gets>>
  /\ UNCHANGED <<pipeVars, slotVars, checks, clientVars, mgrVars, streamVars>>

\* await storageService.getTokens(decoded.jti) and the rest of the handler
GetTokensReturns(r) ==
  /\ auth[r].pc = "getTokens"
  /\ \E outcome \in StorageOutcomes, expiry \in Times, now \in Times :
       LET fields == [auth[r] EXCEPT !.record = outcome, !.expiry = expiry, !.now = now]
       IN IF outcome \in {"throws", "malformed"} THEN Respond(r, fields, 500)
          ELSE IF outcome = "none" THEN Respond(r, fields, 401)
          ELSE IF Expired(now, expiry) THEN Respond(r, fields, 401)
          ELSE CallNext(r, fields)
  /\ UNCHANGED <<refreshInProgress, refreshes, callers, tokens, clock, isInitialized, gets>>
  /\ UNCHANGED <<pipeVars, slotVars, checks, clientVars, mgrVars, streamVars>>

NextAuth ==
  \/ \E r \in AuthIds, jwt \in JwtInputs, jti \in BOOLEAN : AuthenticateJWT(r, jwt, jti)
  \/ \E r \in AuthIds : GetTokensReturns(r)

SpecAuth == Init /\ [][NextAuth]_vars

\* C31: a request the middleware is done with had next() called once and no
\* response sent when its JWT verified and carried a jti, a token record was
\* found and the Google tokens expire later than now; in every other case
\* it got a 401 or 500 response and next() was not called. Before that
\* neither has happened.
C31_NextOrErrorResponse ==
  \A r \in AuthIds :
    LET a == auth[r]
        ok == /\ a.jwt = "valid" /\ a.jti
              /\ a.record = "found" /\ a.now < a.expiry
    IN /\ a.pc # "done" => a.nextCalls = 0 /\ a.status = 0
       /\ a.pc = "done" =>
            /\ ok => a.nextCalls = 1 /\ a.status = 0
            /\ ~ok => a.nextCalls = 0 /\ a.status \in {401, 500}

\* C31 witness: one request was passed on, another one with a verified JWT
\* and a token record was answered 401 because the Google tokens expire now.
C31_Witness ==
  \E r, q \in AuthIds :
    /\ auth[r].pc = "done" /\ auth[r].nextCalls = 1
    /\ auth[q].pc = "done" /\ auth[q].record = "found"
    /\ auth[q].now = auth[q].expiry /\ auth[q].status = 401

(***************************************************************************)
(* TokenManager.getToken (token-manager.ts)                                *)
(***************************************************************************)
MaxGets == 2

MaxClock == 4

tokenBufferMinutes == 5

\* expiry_date of the token records DynamoDB holds, in minutes
StoredExpiries == {3, 8}

\* getToken(email?): "" stands for a call without email
EmailArgs == Emails \cup {""}

\* Date.now() >= token.expiry_date
isTokenExpired(now, expiry_date) == now >= expiry_date

\* Mutant for C38: the five minutes before the expiry are not looked at.
isTokenExpiringSoonNever(now, expiry_date) == FALSE

\* Date.now() >= (token.expiry_date - bufferMs)
isTokenExpiringSoon(now, expiry_date) == now >= expiry_date - tokenBufferMinutes

\* this.tokens.get(email), or this.tokens.values().next().value
RECURSIVE FirstToken(_, _)
FirstToken(map, order) ==
  IF order = <<>> THEN ""
  ELSE IF map[Head(order)].present THEN Head(order)
  ELSE FirstToken(map, Tail(order))

TokenFor(map, email) == IF email # "" THEN email ELSE FirstToken(map, TokenOrder)

GetCall(email) ==
  [email |-> email, pc |-> "load", user |-> "", found |-> FALSE, stale |-> FALSE,
   foundExpiry |-> 0, at |-> 0, caller |-> 0, result |-> "none", expiry_date |-> 0, returnedAt |-> 0]

PutGet(g, call) ==
  gets' = IF g > Len(gets) THEN Append(gets, call) ELSE [gets EXCEPT ![g] = call]

\* getToken from the look-up in this.tokens on: no token gives undefined, a
\* token that is expired or expiring soon is handed to refreshToken, whose
\* answer is awaited, any other token is returned.
getTokenLookup(g, call, map) ==
  LET user == TokenFor(map, call.email)
      token == IF user = "" THEN NoToken ELSE map[user]
  IN IF ~token.present
     THEN /\ PutGet(g, [call EXCEPT !.pc = "done", !.result = "undefined", !.at = clock,
                                     !.returnedAt = clock])
          /\ UNCHANGED <<refreshInProgress, refreshes, callers>>
     ELSE IF \/ isTokenExpired(clock, token.expiry_date)
             \/ isTokenExpiringSoon(clock, token.expiry_date)
     THEN /\ Len(callers) < MaxCallers
          /\ SetTokenState(refreshToken(TokenState, user))
          /\ PutGet(g, [call EXCEPT !.pc = "refresh", !.user = user, !.found = TRUE,
                                     !.stale = TRUE, !.at = clock,
                                     !.foundExpiry = token.expiry_date,
                                     !.caller = Len(callers) + 1])
     ELSE /\ PutGet(g, [call EXCEPT !.pc = "done", !.user = user, !.found = TRUE,
                                     !.at = clock, !.result = "token",
                                     !.foundExpiry = token.expiry_date,
                                     !.expiry_date = token.expiry_date,
                                     !.returnedAt = clock])
          /\ UNCHANGED <<refreshInProgress, refreshes, callers>>

\* getToken(email) up to its first await
GetToken(email) ==
  /\ Len(gets) < MaxGets
  /\ IF ~isInitialized
     THEN /\ PutGet(Len(gets) + 1, GetCall(email))
          /\ UNCHANGED <<refreshInProgress, refreshes, callers>>
     ELSE getTokenLookup(Len(gets) + 1, GetCall(email), tokens)
  /\ UNCHANGED <<tokens, clock, isInitialized, auth>>
  /\ UNCHANGED <<pipeVars, slotVars, checks, clientVars, mgrVars, streamVars>>

\* What getAllTokens can answer: for every user a token record or none
StoredTokens == [Emails -> {NoToken} \cup {TokenData(x) : x \in StoredExpiries}]

\* await loadTokensFromDynamoDB() returns: the map was replaced by what
\* DynamoDB holds, or was left alone because getAllTokens failed; getToken
\* goes on with the look-up.
LoadTokensReturns(g) ==
  /\ g \in 1..Len(gets)
  /\ gets[g].pc = "load"
  /\ \E loaded \in BOOLEAN :
       IF loaded
       THEN \E stored \in StoredTokens :
              /\ tokens' = stored
              /\ isInitialized' = TRUE
              /\ getTokenLookup(g, gets[g], stored)
       ELSE /\ isInitialized' = FALSE
            /\ UNCHANGED tokens
            /\ getTokenLookup(g, gets[g], tokens)
  /\ UNCHANGED <<clock, auth>>
  /\ UNCHANGED <<pipeVars, slotVars, checks, clientVars, mgrVars, streamVars>>

\* await this.refreshToken(token) returns: the refreshed token or undefined
GetTokenResumes(g) ==
  /\ g \in 1..Len(gets)
  /\ gets[g].pc = "refresh"
  /\ callers[gets[g].caller].state = "returned"
  /\ LET c == callers[gets[g].caller]
     IN gets' = [gets EXCEPT ![g] =
                  IF c.result = "token"
                  THEN [@ EXCEPT !.pc = "done", !.result = "token",
                                 !.expiry_date = refreshes[c.promise].expiry_date,
                                 !.returnedAt = clock]
                  ELSE [@ EXCEPT !.pc = "done", !.result = "undefined",
                                 !.returnedAt = clock]]
  /\ UNCHANGED <<refreshInProgress, refreshes, callers, tokens, clock, isInitialized, auth>>
  /\ UNCHANGED <<pipeVars, slotVars, checks, clientVars, mgrVars, streamVars>>

\* A minute passes.
Tick ==
  /\ clock < MaxClock
  /\ clock' = clock + 1
  /\ UNCHANGED <<refreshInProgress, refreshes, callers, tokens, isInitialized, gets, auth>>
  /\ UNCHANGED <<pipeVars, slotVars, checks, clientVars, mgrVars, streamVars>>

NextGetToken ==
  \/ \E email \in EmailArgs : GetToken(email)
  \/ \E g \in 1..MaxGets : LoadTokensReturns(g)
  \/ \E g \in 1..MaxGets : GetTokenResumes(g)
  \/ \E i \in 1..MaxCallers : PerformTokenRefreshReturns(i)
  \/ \E k \in 1..MaxCallers : CallerResumes(k)
  \/ Tick

SpecGetToken == Init /\ [][NextGetToken]_vars

\* C38: a token getToken has returned expires more than five minutes after
\* the return; and when the token getToken found was expired or expiring
\* within five minutes, it returned the token of the refresh it awaited when
\* that refresh gave one, and undefined when that refresh gave null.
C38_NoStaleTokenReturned ==
  \A g \in 1..Len(gets) :
    gets[g].pc = "done" =>
      /\ gets[g].result = "token" =>
           gets[g].returnedAt + tokenBufferMinutes < gets[g].expiry_date
      /\ (gets[g].found /\ gets[g].at + tokenBufferMinutes >= gets[g].foundExpiry) =>
           /\ gets[g].stale
           /\ LET c == callers[gets[g].caller]
              IN /\ c.result = "token" =>
                      /\ gets[g].result = "token"
                      /\ gets[g].expiry_date = refreshes[c.promise].expiry_date
                 /\ c.result = "null" => gets[g].result = "undefined"

\* C38 witness: two calls found a token that expires within five minutes;
\* one returned the refreshed token, the other one undefined.
C38_Witness ==
  \E g, h \in 1..Len(gets) :
    /\ gets[g].pc = "done" /\ gets[g].stale /\ gets[g].result = "token"
    /\ gets[h].pc = "done" /\ gets[h].stale /\ gets[h].result = "undefined"

=============================================================================
